---------------------------- MODULE Spec2Model ----------------------------
(***************************************************************************)
(* Model of the natural-language query pipeline of data-cleaner_backend:   *)
(* the SQL sanitizer and query plan generator (entities and DMS variants), *)
(* the data-source router and the correction loop of the controller.       *)
(*                                                                         *)
(* Text is modelled as a sequence of one-character strings, so that the    *)
(* regular expressions of the source are evaluated character by character. *)
(***************************************************************************)
EXTENDS Integers, Sequences, FiniteSets, TLC

(***************************************************************************)
(* Text primitives (JavaScript string and RegExp semantics)                *)
(***************************************************************************)
UpperCase ==
    <<"A", "B", "C", "D", "E", "F", "G", "H", "I", "J", "K", "L", "M", "N", "O", "P", "Q", "R", "S", "T", "U", "V", "W", "X", "Y", "Z">>
LowerCase ==
    <<"a", "b", "c", "d", "e", "f", "g", "h", "i", "j", "k", "l", "m", "n", "o", "p", "q", "r", "s", "t", "u", "v", "w", "x", "y", "z">>
DigitChars ==
    <<"0", "1", "2", "3", "4", "5", "6", "7", "8", "9">>

Letters == { UpperCase[i] : i \in 1..26 } \cup { LowerCase[i] : i \in 1..26 }

DigitSet == { DigitChars[i] : i \in 1..10 }

\* The other characters that occur in the texts of the model
Punctuation ==
    {" ", "\n", "\t", "\r", "_", "-", "?", ";", "'", "/", "*", ".", "=", ","}

Alphabet == Letters \cup DigitSet \cup Punctuation

LowerOf ==
    [c \in Alphabet |->
        IF \E i \in 1..26 : UpperCase[i] = c
        THEN LowerCase[CHOOSE i \in 1..26 : UpperCase[i] = c]
        ELSE c]

UpperOf ==
    [c \in Alphabet |->
        IF \E i \in 1..26 : LowerCase[i] = c
        THEN UpperCase[CHOOSE i \in 1..26 : LowerCase[i] = c]
        ELSE c]

\* String.prototype.toLowerCase on one character
ToLowerChar(c) == LowerOf[c]

\* String.prototype.toUpperCase on one character
ToUpperChar(c) == UpperOf[c]

ToLowerCase(s) == [i \in 1..Len(s) |-> ToLowerChar(s[i])]

WordChars == Letters \cup DigitSet \cup {"_"}

SpaceChars == {" ", "\n", "\t", "\r"}

\* \w of a RegExp
IsWordChar(c) == c \in WordChars

\* \s of a RegExp
IsSpace(c) == c \in SpaceChars

\* \d of a RegExp
IsDigit(c) == c \in DigitSet

\* The literal lit matches s at position i, ignoring case (flag "i")
MatchesAtCI(s, i, lit) ==
    /\ i >= 1
    /\ i + Len(lit) - 1 <= Len(s)
    /\ \A k \in 1..Len(lit) : ToLowerChar(s[i + k - 1]) = ToLowerChar(lit[k])

\* The literal lit matches s at position i exactly
MatchesAt(s, i, lit) ==
    /\ i >= 1
    /\ i + Len(lit) - 1 <= Len(s)
    /\ \A k \in 1..Len(lit) : s[i + k - 1] = lit[k]

\* \b holds between s[i-1] and s[i]
AtWordBoundary(s, i) ==
    LET before == i >= 2 /\ i - 1 <= Len(s) /\ IsWordChar(s[i - 1])
        after  == i >= 1 /\ i <= Len(s) /\ IsWordChar(s[i])
    IN  before # after

\* new RegExp(`\\b${kw}\\b`, "i").test(s)
TestWholeWord(s, kw) ==
    \E i \in 1..(Len(s) - Len(kw) + 1) :
        /\ MatchesAtCI(s, i, kw)
        /\ AtWordBoundary(s, i)
        /\ AtWordBoundary(s, i + Len(kw))

\* s.includes(lit), ignoring case
ContainsCI(s, lit) == \E i \in 1..Len(s) : MatchesAtCI(s, i, lit)

\* String.prototype.trim
Trim(s) ==
    IF \A i \in 1..Len(s) : IsSpace(s[i]) THEN <<>>
    ELSE LET first == CHOOSE i \in 1..Len(s) :
                          ~IsSpace(s[i]) /\ \A j \in 1..(i - 1) : IsSpace(s[j])
             last  == CHOOSE i \in 1..Len(s) :
                          ~IsSpace(s[i]) /\ \A j \in (i + 1)..Len(s) : IsSpace(s[j])
         IN  SubSeq(s, first, last)

\* s.replace(/\/\*[\s\S]*?\*\//g, "")
RECURSIVE StripBlockComments(_)
StripBlockComments(s) ==
    LET opens == { i \in 1..Len(s) :
                     /\ MatchesAt(s, i, <<"/", "*">>)
                     /\ \E j \in (i + 2)..Len(s) : MatchesAt(s, j, <<"*", "/">>) }
    IN  IF opens = {} THEN s
        ELSE LET i == CHOOSE x \in opens : \A y \in opens : x <= y
                 j == CHOOSE x \in (i + 2)..Len(s) :
                          /\ MatchesAt(s, x, <<"*", "/">>)
                          /\ \A y \in (i + 2)..(x - 1) : ~MatchesAt(s, y, <<"*", "/">>)
             IN  SubSeq(s, 1, i - 1) \o StripBlockComments(SubSeq(s, j + 2, Len(s)))

\* s.replace(/--.*/g, "")   ("." stops at a line terminator)
RECURSIVE StripLineComments(_)
StripLineComments(s) ==
    LET starts == { i \in 1..Len(s) : MatchesAt(s, i, <<"-", "-">>) }
    IN  IF starts = {} THEN s
        ELSE LET i == CHOOSE x \in starts : \A y \in starts : x <= y
                 ends == { x \in i..Len(s) : s[x] \in {"\n", "\r"} }
                 e == IF ends = {} THEN Len(s) + 1
                      ELSE CHOOSE x \in ends : \A y \in ends : x <= y
             IN  SubSeq(s, 1, i - 1) \o StripLineComments(SubSeq(s, e, Len(s)))

\* s.replace(/\s+/g, " ")
RECURSIVE CollapseWhitespace(_)
CollapseWhitespace(s) ==
    IF s = <<>> THEN <<>>
    ELSE IF IsSpace(s[1])
         THEN IF Len(s) >= 2 /\ IsSpace(s[2])
              THEN CollapseWhitespace(Tail(s))
              ELSE <<" ">> \o CollapseWhitespace(Tail(s))
         ELSE <<s[1]>> \o CollapseWhitespace(Tail(s))

\* Length of the longest run of characters satisfying a class, from position i
RECURSIVE SpaceRun(_, _)
SpaceRun(s, i) == IF i <= Len(s) /\ IsSpace(s[i]) THEN 1 + SpaceRun(s, i + 1) ELSE 0

RECURSIVE DigitRun(_, _)
DigitRun(s, i) == IF i <= Len(s) /\ IsDigit(s[i]) THEN 1 + DigitRun(s, i + 1) ELSE 0

DigitValue(c) == (CHOOSE i \in 1..10 : DigitChars[i] = c) - 1

\* parseInt(digits, 10)
RECURSIVE ParseInt(_)
ParseInt(d) ==
    IF d = <<>> THEN 0
    ELSE 10 * ParseInt(SubSeq(d, 1, Len(d) - 1)) + DigitValue(d[Len(d)])

\* String(n) for a natural number n
RECURSIVE NatToString(_)
NatToString(n) ==
    IF n < 10 THEN <<DigitChars[n + 1]>>
    ELSE NatToString(n \div 10) \o <<DigitChars[(n % 10) + 1]>>

Min(a, b) == IF a <= b THEN a ELSE b

Max(a, b) == IF a >= b THEN a ELSE b

(***************************************************************************)
(* Query plans and the SQL sanitizer                                       *)
(***************************************************************************)
KwSELECT ==
    <<"S", "E", "L", "E", "C", "T">>
KwLIMIT ==
    <<"L", "I", "M", "I", "T">>
LimitPlaceholder ==
    <<"L", "I", "M", "I", "T", " ", "?">>
KwUPDATE ==
    <<"U", "P", "D", "A", "T", "E">>
KwDELETE ==
    <<"D", "E", "L", "E", "T", "E">>
KwINSERT ==
    <<"I", "N", "S", "E", "R", "T">>
KwDROP ==
    <<"D", "R", "O", "P">>
KwALTER ==
    <<"A", "L", "T", "E", "R">>
KwCREATE ==
    <<"C", "R", "E", "A", "T", "E">>
KwTRUNCATE ==
    <<"T", "R", "U", "N", "C", "A", "T", "E">>
KwRENAME ==
    <<"R", "E", "N", "A", "M", "E">>
KwGRANT ==
    <<"G", "R", "A", "N", "T">>
KwREVOKE ==
    <<"R", "E", "V", "O", "K", "E">>
FallbackSql ==
    <<"S", "E", "L", "E", "C", "T", " ", "'", "N", "o", " ", "v", "a", "l", "i", "d", " ", "q", "u", "e", "r", "y", " ", "c", "o", "u", "l", "d", " ", "b", "e", " ", "g", "e", "n", "e", "r", "a", "t", "e", "d", ".", "'", " ", "A", "S", " ", "m", "e", "s", "s", "a", "g", "e">>

\* forbidden list of NaturalLanguageQueryAIService.validateAndSanitize
ForbiddenEntities ==
    <<KwUPDATE, KwDELETE, KwINSERT, KwDROP, KwALTER, KwCREATE, KwTRUNCATE,
      KwRENAME, KwGRANT, KwREVOKE>>

\* forbidden list of NaturalLanguageQueryAIServiceDMS.validateAndSanitize
ForbiddenDMS ==
    <<KwUPDATE, KwDELETE, KwINSERT, KwDROP, KwALTER, KwCREATE, KwTRUNCATE>>

Forbidden(variant) == IF variant = "entities" THEN ForbiddenEntities ELSE ForbiddenDMS

Variants == {"entities", "dms"}

\* buildFallbackQueryPlan(reason, {shouldRetry})
buildFallbackQueryPlan(reason, retry, variant) ==
    [sql           |-> FallbackSql,
     explanation   |-> <<"I cannot perform that action. ">> \o reason \o
                       (IF variant = "entities"
                        THEN <<" Please ask about entities, people, or addresses.">>
                        ELSE <<" Please ask about tickets, users, deals, or notes.">>),
     allowsLimit   |-> FALSE,
     limit         |-> 0,
     successStatus |-> FALSE,
     shouldRetry   |-> retry]

\* First match of /\bLIMIT\s+(\d+)/i in sql: its start position, or 0
LimitMatchPos(sql) ==
    LET hits == { i \in 1..Len(sql) :
                    /\ AtWordBoundary(sql, i)
                    /\ MatchesAtCI(sql, i, KwLIMIT)
                    /\ SpaceRun(sql, i + 5) >= 1
                    /\ DigitRun(sql, i + 5 + SpaceRun(sql, i + 5)) >= 1 }
    IN  IF hits = {} THEN 0 ELSE CHOOSE x \in hits : \A y \in hits : x <= y

\* Capture group 1 of the match at position i
LimitDigits(sql, i) ==
    LET d == i + 5 + SpaceRun(sql, i + 5)
    IN  SubSeq(sql, d, d + DigitRun(sql, d) - 1)

\* sql.replace(/\bLIMIT\s+\d+/i, "LIMIT ?")
ReplaceLimitLiteral(sql) ==
    LET i == LimitMatchPos(sql)
    IN  IF i = 0 THEN sql
        ELSE LET d == i + 5 + SpaceRun(sql, i + 5)
                 e == d + DigitRun(sql, d)
             IN  SubSeq(sql, 1, i - 1) \o LimitPlaceholder \o SubSeq(sql, e, Len(sql))

\* The structural check at the head of validateAndSanitize; a null response
\* makes the property access throw inside the same try block
StructurallyValid(plan) ==
    /\ plan.kind = "json"
    /\ plan.sqlType # "absent"
    /\ ~(plan.sqlType = "string" /\ plan.sql = <<>>)
    /\ plan.explType = "string"
    /\ plan.allowsLimit \in {"true", "false"}
    /\ plan.successStatus \in {"true", "false"}

\* First forbidden keyword of the variant's list found in sql, or 0
FirstForbidden(sql, variant) ==
    LET F == Forbidden(variant)
        hits == { k \in 1..Len(F) : TestWholeWord(sql, F[k]) }
    IN  IF hits = {} THEN 0 ELSE CHOOSE x \in hits : \A y \in hits : x <= y

\* The literal LIMIT is replaced when the guard of the variant holds:
\* entities `limitValue > 100`, DMS `limitValue > 100 || limitMatch`
ReplacesLimit(variant, limitValue, matched) ==
    IF variant = "entities" THEN limitValue > 100
    ELSE limitValue > 100 \/ matched

\* validateAndSanitize(plan) of both generator variants
validateAndSanitize(plan, variant) ==
    IF ~StructurallyValid(plan)
    THEN buildFallbackQueryPlan(<<"Validation failed: Missing or invalid fields">>, TRUE, variant)
    ELSE IF plan.successStatus = "false" /\ plan.shouldRetry = "false"
    THEN [sql           |-> plan.sql,
          explanation   |-> plan.explanation,
          allowsLimit   |-> FALSE,
          limit         |-> 0,
          successStatus |-> FALSE,
          shouldRetry   |-> FALSE]
    ELSE IF plan.sqlType # "string"
    THEN buildFallbackQueryPlan(<<"Validation failed: plan.sql.trim is not a function">>, TRUE, variant)
    ELSE
      LET sql0 == Trim(plan.sql)
          kw   == FirstForbidden(sql0, variant)
      IN  IF kw # 0
          THEN buildFallbackQueryPlan(
                   (IF variant = "entities"
                    THEN <<"Validation failed: Forbidden keyword detected: ">>
                    ELSE <<"Validation failed: Forbidden keyword: ">>)
                   \o Forbidden(variant)[kw], TRUE, variant)
          ELSE IF ~MatchesAtCI(sql0, 1, KwSELECT)
          THEN buildFallbackQueryPlan(
                   (IF variant = "entities"
                    THEN <<"Validation failed: Only SELECT queries are allowed">>
                    ELSE <<"Validation failed: Only SELECT queries allowed">>), TRUE, variant)
          ELSE
            LET sql1 == Trim(CollapseWhitespace(StripLineComments(StripBlockComments(sql0))))
                m    == LimitMatchPos(sql1)
                limitValue == IF m # 0 THEN Min(ParseInt(LimitDigits(sql1, m)), 100) ELSE 0
                sql2 == IF ReplacesLimit(variant, limitValue, m # 0)
                        THEN ReplaceLimitLiteral(sql1) ELSE sql1
            IN  [sql           |-> sql2,
                 explanation   |-> Trim(plan.explanation),
                 allowsLimit   |-> plan.allowsLimit = "true",
                 limit         |-> limitValue,
                 successStatus |-> TRUE,
                 shouldRetry   |-> FALSE]

(***************************************************************************)
(* Responses of the generative model                                       *)
(***************************************************************************)
\* Number of letter-case variants of each keyword beyond the upper-case one
MaxCaseVariant == 2

HeadSelect ==
    <<"S", "E", "L", "E", "C", "T", " ", "a", " ", "F", "R", "O", "M", " ", "t">>
HeadSelectLower ==
    <<"s", "e", "l", "e", "c", "t", " ", "a", " ", "f", "r", "o", "m", " ", "t">>
HeadPadded ==
    <<" ", "\n", " ", "s", "e", "l", "e", "c", "t", " ", "a", " ", "F", "R", "O", "M", " ", "t">>
HeadShow ==
    <<"S", "H", "O", "W", " ", "T", "A", "B", "L", "E", "S">>
MidSubstring ==
    <<" ", "W", "H", "E", "R", "E", " ", "d", "r", "o", "p", "p", "e", "d", " ", "=", " ", "u", "p", "d", "a", "t", "e", "s">>
MidComment ==
    <<" ", "/", "*", " ", "c", " ", "*", "/">>
TailLimitSmall ==
    <<" ", "L", "I", "M", "I", "T", " ", "5">>
TailLimitLarge ==
    <<" ", "L", "I", "M", "I", "T", " ", " ", "5", "0", "0">>
TailPlaceholder ==
    <<" ", "L", "I", "M", "I", "T", " ", "?">>
TailLineComment ==
    <<" ", "-", "-", " ", "c">>
SqlDropTable ==
    <<"D", "R", "O", "P", " ", "T", "A", "B", "L", "E", " ", "x">>
ExplanationText ==
    <<" ", "o", "k", " ">>

\* Variant k of a keyword: k = 0 is upper case, k >= 1 lowers every k-th letter
CaseVariant(kw, k) ==
    [i \in 1..Len(kw) |->
        IF k > 0 /\ (i - 1) % k = 0 THEN ToLowerChar(kw[i]) ELSE ToUpperChar(kw[i])]

SqlHeads == {HeadSelect, HeadPadded, <<>>}

SqlKeywordMids ==
    { <<";", " ">> \o CaseVariant(ForbiddenEntities[n], k) \o <<" ", "t">> :
        n \in 1..Len(ForbiddenEntities), k \in 0..MaxCaseVariant }

SqlMids == {<<>>, MidSubstring, MidComment} \cup SqlKeywordMids

SqlTails == {<<>>, TailLimitLarge, TailLineComment}

\* SQL texts the model may put in its answer
RichSql == { h \o m \o t : h \in SqlHeads, m \in SqlMids, t \in SqlTails }

\* SQL texts used with every combination of the flags
MidSql ==
    {HeadSelect, HeadSelectLower \o TailLimitLarge, HeadSelect \o TailLimitSmall,
     HeadSelect \o TailPlaceholder, HeadShow, SqlDropTable,
     HeadSelect \o <<";", " ">> \o KwRENAME \o <<" ", "t">>}

\* SQL texts used with the whole request handler
CoreSql ==
    {HeadSelect, HeadSelectLower \o TailLimitLarge, HeadSelect \o TailPlaceholder,
     SqlDropTable, HeadSelect \o <<";", " ">> \o KwRENAME \o <<" ", "t">>}

Tri == {"true", "false", "absent"}

Response(kind, sqlType, sql, explType, allowsLimit, successStatus, shouldRetry) ==
    [kind          |-> kind,
     sqlType       |-> sqlType,
     sql           |-> sql,
     explType      |-> explType,
     explanation   |-> IF explType = "string" THEN ExplanationText ELSE <<>>,
     allowsLimit   |-> allowsLimit,
     successStatus |-> successStatus,
     shouldRetry   |-> shouldRetry]

NoResponse == Response("none", "absent", <<>>, "other", "absent", "absent", "absent")

\* The call throws, the content is empty, the content is not JSON, or the
\* content is the JSON value null
FailureResponses ==
    { Response(k, "absent", <<>>, "other", "absent", "absent", "absent") :
        k \in {"error", "empty", "badjson", "null"} }

\* The flag combinations that decide the path taken
DecidingFlags == {<<"true", "absent">>, <<"false", "false">>, <<"false", "absent">>}

\* Every SQL text with the deciding flag combinations
RichResponses ==
    { Response("json", "string", q, "string", "true", f[1], f[2]) :
        q \in RichSql, f \in DecidingFlags }

\* Every combination of present, absent and wrongly typed fields
MidResponses ==
    { Response("json", "string", q, "string", a, s, r) :
        q \in MidSql, a \in {"true", "false"}, s \in {"true", "false"}, r \in Tri }
    \cup { Response("json", "string", HeadSelect, e, a, s, "absent") :
        e \in {"string", "other"}, a \in Tri, s \in Tri }
    \cup { Response("json", t, IF t = "number" THEN <<"5">> ELSE <<>>, "string", "false", s, r) :
        t \in {"absent", "number"}, s \in {"true", "false"}, r \in {"false", "absent"} }
    \cup { Response("json", "string", <<>>, "string", "false", "true", "absent") }

\* Answers used with the whole request handler
CoreResponses ==
    { Response("json", "string", q, "string", a, f[1], f[2]) :
        q \in CoreSql, a \in {"true", "false"}, f \in DecidingFlags }
    \cup { Response("json", "string", HeadSelect, "other", "true", "true", "absent"),
           Response("json", "number", <<"5">>, "string", "false", "false", "false") }
    \cup { Response(k, "absent", <<>>, "other", "absent", "absent", "absent") :
             k \in {"error", "null"} }

AllResponses == FailureResponses \cup RichResponses \cup MidResponses \cup CoreResponses

(***************************************************************************)
(* Query plan generator: generateQueryPlan of both variants                *)
(***************************************************************************)
MAX_RETRIES == 3

VARIABLES
    genPc,          \* "idle", "call" (awaiting the model), "process", "decide", "returned"
    genVariant,     \* "entities" or "dms"
    genCorrections, \* the corrections argument
    genAttempt,     \* loop variable attempt
    genPrompt,      \* the user prompt that opens the conversation
    genResp,        \* response of the model call of this iteration
    genResult,      \* local result of validateAndSanitize in this iteration
    genPlan,        \* the QueryPlan returned
    genCalls        \* number of chat.completions.create calls made

genVars ==
    <<genPc, genVariant, genCorrections, genAttempt, genPrompt, genResp,
      genResult, genPlan, genCalls>>

NoPlan ==
    [sql |-> <<>>, explanation |-> <<>>, allowsLimit |-> FALSE, limit |-> 0,
     successStatus |-> FALSE, shouldRetry |-> FALSE]

Message(role, text, corrections) ==
    [role |-> role, text |-> text, corrections |-> corrections]

\* buildUserPrompt(question, corrections): the prompt renders every
\* correction in order
buildUserPrompt(corrections) == Message("user", "userPrompt", corrections)

NoMessage == Message("none", "", <<>>)

GenIdle ==
    /\ genPc = "idle"
    /\ genVariant = "entities"
    /\ genCorrections = <<>>
    /\ genAttempt = 0
    /\ genPrompt = NoMessage
    /\ genResp = NoResponse
    /\ genResult = NoPlan
    /\ genPlan = NoPlan
    /\ genCalls = 0

\* The call is over: its locals are gone
GenEnd ==
    /\ genPc' = "idle"
    /\ genVariant' = "entities"
    /\ genCorrections' = <<>>
    /\ genAttempt' = 0
    /\ genPrompt' = NoMessage
    /\ genResp' = NoResponse
    /\ genResult' = NoPlan
    /\ genPlan' = NoPlan
    /\ genCalls' = 0

\* Entry of generateQueryPlan: prompts built, loop variable initialised
GenStart(variant, corrections) ==
    /\ genPc' = "call"
    /\ genVariant' = variant
    /\ genCorrections' = corrections
    /\ genAttempt' = 0
    /\ genPrompt' = buildUserPrompt(corrections)
    /\ genResp' = NoResponse
    /\ genResult' = NoPlan
    /\ genPlan' = NoPlan
    /\ genCalls' = 0

\* One more iteration
LoopContinuesOneMore(attempt) == attempt <= MAX_RETRIES + 1

\* The loop condition attempt <= MAX_RETRIES
LoopContinues(attempt) == attempt <= MAX_RETRIES

\* await this.openai.chat.completions.create(...) settles with response r
GenModelResponds(R) ==
    /\ genPc = "call"
    /\ LoopContinues(genAttempt)
    /\ \E r \in R : genResp' = r
    /\ genCalls' = genCalls + 1
    /\ genPc' = "process"
    /\ genResult' = NoPlan
    /\ UNCHANGED <<genVariant, genCorrections, genAttempt, genPrompt, genPlan>>

\* The model call threw, or the try block threw on the content
Throws(r) == r.kind \in {"error", "empty", "badjson"}

ErrorMsg(r) ==
    CASE r.kind = "empty"   -> "Empty response from AI"
      [] r.kind = "badjson" -> "AI returned invalid JSON"
      [] OTHER              -> "Unknown error"

\* The messages pushed on the conversation between attempts go to the model
\* only, whose answers are unconstrained: they are not part of the state.

\* catch block, attempt < MAX_RETRIES: rejection message pushed, next attempt
GenCatchRetry ==
    /\ genPc = "process"
    /\ Throws(genResp)
    /\ genAttempt # MAX_RETRIES
    /\ genAttempt' = genAttempt + 1
    /\ genPc' = "call"
    /\ genResp' = NoResponse
    /\ UNCHANGED <<genVariant, genCorrections, genPrompt, genResult, genPlan, genCalls>>

\* The options argument is forgotten: shouldRetry defaults to true
ExhaustedPlanRetrying(reason, variant) == buildFallbackQueryPlan(reason, TRUE, variant)

\* The terminal plan: buildFallbackQueryPlan(reason, { shouldRetry: false })
ExhaustedPlan(reason, variant) == buildFallbackQueryPlan(reason, FALSE, variant)

\* catch block, attempt === MAX_RETRIES: terminal fallback plan
GenCatchExhausted ==
    /\ genPc = "process"
    /\ Throws(genResp)
    /\ genAttempt = MAX_RETRIES
    /\ genPlan' = ExhaustedPlan(<<"Failed after 4 attempts: ", ErrorMsg(genResp)>>,
                                genVariant)
    /\ genPc' = "returned"
    /\ UNCHANGED <<genVariant, genCorrections, genAttempt, genPrompt, genResp,
                   genResult, genCalls>>

\* const result = this.validateAndSanitize(parsed)
GenValidate ==
    /\ genPc = "process"
    /\ ~Throws(genResp)
    /\ genResult' = validateAndSanitize(genResp, genVariant)
    /\ genPc' = "decide"
    /\ UNCHANGED <<genVariant, genCorrections, genAttempt, genPrompt, genResp, genPlan,
                   genCalls>>

\* if (result.successStatus) return result
GenReturnSuccess ==
    /\ genPc = "decide"
    /\ genResult.successStatus
    /\ genPlan' = genResult
    /\ genPc' = "returned"
    /\ UNCHANGED <<genVariant, genCorrections, genAttempt, genPrompt, genResp, genResult,
                   genCalls>>

\* if (!result.shouldRetry) return result
GenReturnNoRetry ==
    /\ genPc = "decide"
    /\ ~genResult.successStatus
    /\ ~genResult.shouldRetry
    /\ genPlan' = genResult
    /\ genPc' = "returned"
    /\ UNCHANGED <<genVariant, genCorrections, genAttempt, genPrompt, genResp, genResult,
                   genCalls>>

\* Rejected by validateAndSanitize: the answer and the feedback are pushed
\* and the loop goes on
GenFeedbackRetry ==
    /\ genPc = "decide"
    /\ ~genResult.successStatus
    /\ genResult.shouldRetry
    /\ genAttempt' = genAttempt + 1
    /\ LoopContinues(genAttempt + 1)
    /\ genPc' = "call"
    /\ genResp' = NoResponse
    /\ UNCHANGED <<genVariant, genCorrections, genPrompt, genResult, genPlan, genCalls>>

\* Rejected on the last iteration: the loop ends and the fallback after the
\* loop is returned
GenLoopExhausted ==
    /\ genPc = "decide"
    /\ ~genResult.successStatus
    /\ genResult.shouldRetry
    /\ genAttempt' = genAttempt + 1
    /\ ~LoopContinues(genAttempt + 1)
    /\ genPlan' = ExhaustedPlan(<<"Internal error: No valid plan generated.">>, genVariant)
    /\ genPc' = "returned"
    /\ UNCHANGED <<genVariant, genCorrections, genPrompt, genResp, genResult, genCalls>>

(***************************************************************************)
(* Data-source router: DataSourceRouterService                             *)
(***************************************************************************)
\* Weights and confidences are in hundredths: 0.95 is 95
GeneralPatterns ==
    <<
    [category |-> "greeting", pattern |-> "/^hi|hello|hey|yo|sup|greetings|good morning|good afternoon|good evening$/i", alternatives |-> <<
        [anchor |-> "start", text |-> <<"h", "i">>],
        [anchor |-> "none", text |-> <<"h", "e", "l", "l", "o">>],
        [anchor |-> "none", text |-> <<"h", "e", "y">>],
        [anchor |-> "none", text |-> <<"y", "o">>],
        [anchor |-> "none", text |-> <<"s", "u", "p">>],
        [anchor |-> "none", text |-> <<"g", "r", "e", "e", "t", "i", "n", "g", "s">>],
        [anchor |-> "none", text |-> <<"g", "o", "o", "d", " ", "m", "o", "r", "n", "i", "n", "g">>],
        [anchor |-> "none", text |-> <<"g", "o", "o", "d", " ", "a", "f", "t", "e", "r", "n", "o", "o", "n">>],
        [anchor |-> "end", text |-> <<"g", "o", "o", "d", " ", "e", "v", "e", "n", "i", "n", "g">>]>>],
    [category |-> "identity", pattern |-> "/^who are you|what are you|are you (an? )?(ai|bot|assistant|llm)/i", alternatives |-> <<
        [anchor |-> "start", text |-> <<"w", "h", "o", " ", "a", "r", "e", " ", "y", "o", "u">>],
        [anchor |-> "none", text |-> <<"w", "h", "a", "t", " ", "a", "r", "e", " ", "y", "o", "u">>],
        [anchor |-> "none", text |-> <<"a", "r", "e", " ", "y", "o", "u", " ", "a", "i">>],
        [anchor |-> "none", text |-> <<"a", "r", "e", " ", "y", "o", "u", " ", "b", "o", "t">>],
        [anchor |-> "none", text |-> <<"a", "r", "e", " ", "y", "o", "u", " ", "a", "s", "s", "i", "s", "t", "a", "n", "t">>],
        [anchor |-> "none", text |-> <<"a", "r", "e", " ", "y", "o", "u", " ", "l", "l", "m">>],
        [anchor |-> "none", text |-> <<"a", "r", "e", " ", "y", "o", "u", " ", "a", " ", "a", "i">>],
        [anchor |-> "none", text |-> <<"a", "r", "e", " ", "y", "o", "u", " ", "a", " ", "b", "o", "t">>],
        [anchor |-> "none", text |-> <<"a", "r", "e", " ", "y", "o", "u", " ", "a", " ", "a", "s", "s", "i", "s", "t", "a", "n", "t">>],
        [anchor |-> "none", text |-> <<"a", "r", "e", " ", "y", "o", "u", " ", "a", " ", "l", "l", "m">>],
        [anchor |-> "none", text |-> <<"a", "r", "e", " ", "y", "o", "u", " ", "a", "n", " ", "a", "i">>],
        [anchor |-> "none", text |-> <<"a", "r", "e", " ", "y", "o", "u", " ", "a", "n", " ", "b", "o", "t">>],
        [anchor |-> "none", text |-> <<"a", "r", "e", " ", "y", "o", "u", " ", "a", "n", " ", "a", "s", "s", "i", "s", "t", "a", "n", "t">>],
        [anchor |-> "none", text |-> <<"a", "r", "e", " ", "y", "o", "u", " ", "a", "n", " ", "l", "l", "m">>]>>],
    [category |-> "capabilities", pattern |-> "/^what can you do|how can you help|what (are|is) your (abilities|capabilities|features)/i", alternatives |-> <<
        [anchor |-> "start", text |-> <<"w", "h", "a", "t", " ", "c", "a", "n", " ", "y", "o", "u", " ", "d", "o">>],
        [anchor |-> "none", text |-> <<"h", "o", "w", " ", "c", "a", "n", " ", "y", "o", "u", " ", "h", "e", "l", "p">>],
        [anchor |-> "none", text |-> <<"w", "h", "a", "t", " ", "a", "r", "e", " ", "y", "o", "u", "r", " ", "a", "b", "i", "l", "i", "t", "i", "e", "s">>],
        [anchor |-> "none", text |-> <<"w", "h", "a", "t", " ", "a", "r", "e", " ", "y", "o", "u", "r", " ", "c", "a", "p", "a", "b", "i", "l", "i", "t", "i", "e", "s">>],
        [anchor |-> "none", text |-> <<"w", "h", "a", "t", " ", "a", "r", "e", " ", "y", "o", "u", "r", " ", "f", "e", "a", "t", "u", "r", "e", "s">>],
        [anchor |-> "none", text |-> <<"w", "h", "a", "t", " ", "i", "s", " ", "y", "o", "u", "r", " ", "a", "b", "i", "l", "i", "t", "i", "e", "s">>],
        [anchor |-> "none", text |-> <<"w", "h", "a", "t", " ", "i", "s", " ", "y", "o", "u", "r", " ", "c", "a", "p", "a", "b", "i", "l", "i", "t", "i", "e", "s">>],
        [anchor |-> "none", text |-> <<"w", "h", "a", "t", " ", "i", "s", " ", "y", "o", "u", "r", " ", "f", "e", "a", "t", "u", "r", "e", "s">>]>>],
    [category |-> "help", pattern |-> "/^help|assist me|guide me|show me how|instructions|manual/i", alternatives |-> <<
        [anchor |-> "start", text |-> <<"h", "e", "l", "p">>],
        [anchor |-> "none", text |-> <<"a", "s", "s", "i", "s", "t", " ", "m", "e">>],
        [anchor |-> "none", text |-> <<"g", "u", "i", "d", "e", " ", "m", "e">>],
        [anchor |-> "none", text |-> <<"s", "h", "o", "w", " ", "m", "e", " ", "h", "o", "w">>],
        [anchor |-> "none", text |-> <<"i", "n", "s", "t", "r", "u", "c", "t", "i", "o", "n", "s">>],
        [anchor |-> "none", text |-> <<"m", "a", "n", "u", "a", "l">>]>>],
    [category |-> "feedback", pattern |-> "/^thank you|thanks|appreciate|great job|well done/i", alternatives |-> <<
        [anchor |-> "start", text |-> <<"t", "h", "a", "n", "k", " ", "y", "o", "u">>],
        [anchor |-> "none", text |-> <<"t", "h", "a", "n", "k", "s">>],
        [anchor |-> "none", text |-> <<"a", "p", "p", "r", "e", "c", "i", "a", "t", "e">>],
        [anchor |-> "none", text |-> <<"g", "r", "e", "a", "t", " ", "j", "o", "b">>],
        [anchor |-> "none", text |-> <<"w", "e", "l", "l", " ", "d", "o", "n", "e">>]>>],
    [category |-> "meta", pattern |-> "/^what is this|what is this system|explain this|how does this work|purpose of this/i", alternatives |-> <<
        [anchor |-> "start", text |-> <<"w", "h", "a", "t", " ", "i", "s", " ", "t", "h", "i", "s">>],
        [anchor |-> "none", text |-> <<"w", "h", "a", "t", " ", "i", "s", " ", "t", "h", "i", "s", " ", "s", "y", "s", "t", "e", "m">>],
        [anchor |-> "none", text |-> <<"e", "x", "p", "l", "a", "i", "n", " ", "t", "h", "i", "s">>],
        [anchor |-> "none", text |-> <<"h", "o", "w", " ", "d", "o", "e", "s", " ", "t", "h", "i", "s", " ", "w", "o", "r", "k">>],
        [anchor |-> "none", text |-> <<"p", "u", "r", "p", "o", "s", "e", " ", "o", "f", " ", "t", "h", "i", "s">>]>>]
    >>

DmsSignals ==
    <<
    [kind |-> "literal", keyword |-> <<"t", "i", "c", "k", "e", "t">>,
     weight |-> 95, tables |-> <<"leads_tickets">>, context |-> "explicit ticket reference"],
    [kind |-> "tkDigits", keyword |-> <<"t", "k">>,
     weight |-> 95, tables |-> <<"leads_tickets">>, context |-> "ticket ID format"],
    [kind |-> "literal", keyword |-> <<"n", "o", "t", "e">>,
     weight |-> 90, tables |-> <<"leads_notes">>, context |-> "explicit note reference"],
    [kind |-> "literal", keyword |-> <<"t", "a", "s", "k">>,
     weight |-> 90, tables |-> <<"leads_tickets">>, context |-> "explicit task reference"],
    [kind |-> "literal", keyword |-> <<"r", "e", "m", "i", "n", "d", "e", "r">>,
     weight |-> 90, tables |-> <<"reminders">>, context |-> "explicit reminder reference"],
    [kind |-> "literal", keyword |-> <<"a", "s", "s", "i", "g", "n", "e", "d", " ", "t", "o">>,
     weight |-> 90, tables |-> <<"leads_tickets", "users">>, context |-> "assignment context"],
    [kind |-> "literal", keyword |-> <<"d", "e", "a", "d", "l", "i", "n", "e">>,
     weight |-> 90, tables |-> <<"leads_tickets">>, context |-> "deadline context"],
    [kind |-> "literal", keyword |-> <<"s", "t", "a", "t", "u", "s">>,
     weight |-> 85, tables |-> <<"leads_tickets">>, context |-> "status context"],
    [kind |-> "literal", keyword |-> <<"t", "a", "g">>,
     weight |-> 85, tables |-> <<"leads_tags">>, context |-> "tag context"],
    [kind |-> "literal", keyword |-> <<"l", "e", "a", "d">>,
     weight |-> 85, tables |-> <<"leads_transactions">>, context |-> "lead context"],
    [kind |-> "literal", keyword |-> <<"o", "p", "p", "o", "r", "t", "u", "n", "i", "t", "y">>,
     weight |-> 85, tables |-> <<"leads_transactions">>, context |-> "opportunity context"],
    [kind |-> "literal", keyword |-> <<"t", "r", "a", "n", "s", "a", "c", "t", "i", "o", "n">>,
     weight |-> 80, tables |-> <<"leads_transactions">>, context |-> "transaction context"],
    [kind |-> "literal", keyword |-> <<"o", "w", "n", "e", "d", " ", "b", "y">>,
     weight |-> 80, tables |-> <<"leads_tickets", "users">>, context |-> "ownership context"],
    [kind |-> "literal", keyword |-> <<"c", "r", "e", "a", "t", "e", "d", " ", "b", "y">>,
     weight |-> 80, tables |-> <<"leads_notes", "users">>, context |-> "authorship context"],
    [kind |-> "literal", keyword |-> <<"u", "p", "d", "a", "t", "e", "d", " ", "b", "y">>,
     weight |-> 80, tables |-> <<"leads_tickets", "users">>, context |-> "update context"],
    [kind |-> "literal", keyword |-> <<"f", "o", "l", "l", "o", "w", " ", "u", "p">>,
     weight |-> 75, tables |-> <<"leads_tickets">>, context |-> "follow-up context"],
    [kind |-> "literal", keyword |-> <<"p", "e", "n", "d", "i", "n", "g">>,
     weight |-> 75, tables |-> <<"leads_tickets">>, context |-> "pending status"],
    [kind |-> "literal", keyword |-> <<"o", "v", "e", "r", "d", "u", "e">>,
     weight |-> 75, tables |-> <<"leads_tickets">>, context |-> "overdue context"],
    [kind |-> "literal", keyword |-> <<"p", "r", "i", "o", "r", "i", "t", "y">>,
     weight |-> 70, tables |-> <<"leads_tickets">>, context |-> "priority context"],
    [kind |-> "literal", keyword |-> <<"e", "s", "c", "a", "l", "a", "t", "e">>,
     weight |-> 70, tables |-> <<"leads_tickets">>, context |-> "escalation context"]
    >>

EntitiesSignals ==
    <<
    [kind |-> "literal", keyword |-> <<"e", "n", "t", "i", "t", "y">>,
     weight |-> 98, tables |-> <<"entity">>, context |-> "explicit entity reference"],
    [kind |-> "literal", keyword |-> <<"c", "o", "m", "p", "a", "n", "y">>,
     weight |-> 95, tables |-> <<"entity">>, context |-> "company context"],
    [kind |-> "literal", keyword |-> <<"o", "r", "g", "a", "n", "i", "z", "a", "t", "i", "o", "n">>,
     weight |-> 95, tables |-> <<"entity">>, context |-> "organization context"],
    [kind |-> "literal", keyword |-> <<"p", "e", "r", "s", "o", "n">>,
     weight |-> 95, tables |-> <<"people">>, context |-> "person context"],
    [kind |-> "literal", keyword |-> <<"i", "n", "d", "i", "v", "i", "d", "u", "a", "l">>,
     weight |-> 95, tables |-> <<"people">>, context |-> "individual context"],
    [kind |-> "literal", keyword |-> <<"b", "a", "n", "k", " ", "a", "c", "c", "o", "u", "n", "t">>,
     weight |-> 95, tables |-> <<"bank_account">>, context |-> "bank account context"],
    [kind |-> "literal", keyword |-> <<"i", "b", "a", "n">>,
     weight |-> 95, tables |-> <<"bank_account">>, context |-> "IBAN context"],
    [kind |-> "literal", keyword |-> <<"s", "w", "i", "f", "t">>,
     weight |-> 95, tables |-> <<"bank">>, context |-> "SWIFT context"],
    [kind |-> "literal", keyword |-> <<"b", "i", "c">>,
     weight |-> 95, tables |-> <<"bank">>, context |-> "BIC context"],
    [kind |-> "literal", keyword |-> <<"a", "d", "d", "r", "e", "s", "s">>,
     weight |-> 95, tables |-> <<"address">>, context |-> "address context"],
    [kind |-> "literal", keyword |-> <<"r", "i", "s", "k", " ", "r", "a", "t", "i", "n", "g">>,
     weight |-> 95, tables |-> <<"entity_risk_and_rates">>, context |-> "risk rating context"],
    [kind |-> "literal", keyword |-> <<"c", "r", "e", "d", "i", "t", " ", "l", "i", "m", "i", "t">>,
     weight |-> 95, tables |-> <<"entity_risk_and_rates">>, context |-> "credit limit context"],
    [kind |-> "literal", keyword |-> <<"r", "o", "l", "e">>,
     weight |-> 90, tables |-> <<"entity_role", "role">>, context |-> "role context"],
    [kind |-> "literal", keyword |-> <<"d", "e", "b", "t", "o", "r">>,
     weight |-> 90, tables |-> <<"entity_role", "role">>, context |-> "debtor context"],
    [kind |-> "literal", keyword |-> <<"c", "r", "e", "d", "i", "t", "o", "r">>,
     weight |-> 90, tables |-> <<"entity_role", "role">>, context |-> "creditor context"],
    [kind |-> "literal", keyword |-> <<"o", "r", "i", "g", "i", "n", "a", "t", "o", "r">>,
     weight |-> 90, tables |-> <<"entity_role", "role">>, context |-> "originator context"],
    [kind |-> "literal", keyword |-> <<"c", "o", "n", "t", "a", "c", "t">>,
     weight |-> 90, tables |-> <<"entity_contact", "people">>, context |-> "contact context"],
    [kind |-> "literal", keyword |-> <<"e", "m", "a", "i", "l">>,
     weight |-> 90, tables |-> <<"entity_property">>, context |-> "email context"],
    [kind |-> "literal", keyword |-> <<"p", "h", "o", "n", "e">>,
     weight |-> 90, tables |-> <<"entity_property">>, context |-> "phone context"],
    [kind |-> "literal", keyword |-> <<"w", "e", "b", "s", "i", "t", "e">>,
     weight |-> 90, tables |-> <<"entity_property">>, context |-> "website context"],
    [kind |-> "literal", keyword |-> <<"a", "s", "s", "e", "t">>,
     weight |-> 90, tables |-> <<"asset">>, context |-> "asset context"],
    [kind |-> "literal", keyword |-> <<"p", "r", "o", "p", "e", "r", "t", "y">>,
     weight |-> 85, tables |-> <<"entity_property", "property">>, context |-> "property context"],
    [kind |-> "literal", keyword |-> <<"c", "o", "u", "n", "t", "r", "y">>,
     weight |-> 85, tables |-> <<"param_country", "address">>, context |-> "country context"],
    [kind |-> "literal", keyword |-> <<"c", "i", "t", "y">>,
     weight |-> 85, tables |-> <<"address">>, context |-> "city context"],
    [kind |-> "literal", keyword |-> <<"s", "t", "a", "t", "e">>,
     weight |-> 85, tables |-> <<"address">>, context |-> "state context"],
    [kind |-> "literal", keyword |-> <<"z", "i", "p", "c", "o", "d", "e">>,
     weight |-> 85, tables |-> <<"address">>, context |-> "zipcode context"],
    [kind |-> "literal", keyword |-> <<"t", "r", "a", "d", "e", " ", "n", "a", "m", "e">>,
     weight |-> 85, tables |-> <<"entity">>, context |-> "trade name context"],
    [kind |-> "literal", keyword |-> <<"l", "e", "g", "a", "l", " ", "n", "a", "m", "e">>,
     weight |-> 85, tables |-> <<"entity">>, context |-> "legal name context"],
    [kind |-> "literal", keyword |-> <<"r", "e", "g", "i", "s", "t", "r", "a", "t", "i", "o", "n", " ", "n", "u", "m", "b", "e", "r">>,
     weight |-> 85, tables |-> <<"global_organisations">>, context |-> "registration context"],
    [kind |-> "literal", keyword |-> <<"c", "l", "i", "e", "n", "t">>,
     weight |-> 80, tables |-> <<"entity">>, context |-> "client context"],
    [kind |-> "literal", keyword |-> <<"c", "u", "s", "t", "o", "m", "e", "r">>,
     weight |-> 80, tables |-> <<"entity">>, context |-> "customer context"],
    [kind |-> "literal", keyword |-> <<"v", "e", "n", "d", "o", "r">>,
     weight |-> 80, tables |-> <<"entity">>, context |-> "vendor context"],
    [kind |-> "literal", keyword |-> <<"s", "u", "p", "p", "l", "i", "e", "r">>,
     weight |-> 80, tables |-> <<"entity">>, context |-> "supplier context"],
    [kind |-> "literal", keyword |-> <<"p", "a", "r", "t", "n", "e", "r">>,
     weight |-> 80, tables |-> <<"entity">>, context |-> "partner context"],
    [kind |-> "literal", keyword |-> <<"e", "m", "p", "l", "o", "y", "e", "e">>,
     weight |-> 75, tables |-> <<"people">>, context |-> "employee context"],
    [kind |-> "literal", keyword |-> <<"d", "i", "r", "e", "c", "t", "o", "r">>,
     weight |-> 75, tables |-> <<"people">>, context |-> "director context"],
    [kind |-> "literal", keyword |-> <<"m", "a", "n", "a", "g", "e", "r">>,
     weight |-> 75, tables |-> <<"people">>, context |-> "manager context"],
    [kind |-> "literal", keyword |-> <<"o", "w", "n", "e", "r">>,
     weight |-> 75, tables |-> <<"entity_mapping">>, context |-> "ownership context"],
    [kind |-> "literal", keyword |-> <<"p", "a", "r", "e", "n", "t", " ", "c", "o", "m", "p", "a", "n", "y">>,
     weight |-> 75, tables |-> <<"entity_mapping">>, context |-> "parent context"],
    [kind |-> "literal", keyword |-> <<"s", "u", "b", "s", "i", "d", "i", "a", "r", "y">>,
     weight |-> 75, tables |-> <<"entity_mapping">>, context |-> "subsidiary context"],
    [kind |-> "literal", keyword |-> <<"c", "u", "r", "r", "e", "n", "c", "y">>,
     weight |-> 70, tables |-> <<"bank_account">>, context |-> "currency context"],
    [kind |-> "literal", keyword |-> <<"b", "a", "l", "a", "n", "c", "e">>,
     weight |-> 70, tables |-> <<"bank_account">>, context |-> "balance context"]
    >>

\* q.toLowerCase().trim().replace(/[^\w\s\-]/g, " ").replace(/\s+/g, " ")
normalizeQuestion(q) ==
    LET t == Trim(ToLowerCase(q))
        p == [i \in 1..Len(t) |->
                 IF IsWordChar(t[i]) \/ IsSpace(t[i]) \/ t[i] = "-" THEN t[i] ELSE " "]
    IN  CollapseWhitespace(p)

\* One alternative of a pattern tested against q
AlternativeMatches(alt, q) ==
    CASE alt.anchor = "start" -> MatchesAtCI(q, 1, alt.text)
      [] alt.anchor = "end"   -> MatchesAtCI(q, Len(q) - Len(alt.text) + 1, alt.text)
      [] OTHER                -> ContainsCI(q, alt.text)

PatternMatches(p, q) ==
    \E a \in 1..Len(p.alternatives) : AlternativeMatches(p.alternatives[a], q)

\* matchGeneralPattern(q): index of the first matching pattern, or 0 for null
matchGeneralPattern(q) ==
    LET hits == { n \in 1..Len(GeneralPatterns) : PatternMatches(GeneralPatterns[n], q) }
    IN  IF hits = {} THEN 0 ELSE CHOOSE x \in hits : \A y \in hits : x <= y

\* new RegExp(`\\b${signal.keyword}\\b`, "i").test(q)
SignalMatches(signal, q) ==
    IF signal.kind = "literal" THEN TestWholeWord(q, signal.keyword)
    ELSE \E i \in 1..Len(q) :
            /\ AtWordBoundary(q, i)
            /\ MatchesAtCI(q, i, signal.keyword)
            /\ \E n \in 1..DigitRun(q, i + 2) : AtWordBoundary(q, i + 2 + n)

\* The loop of analyzeDmsSignals and analyzeEntitiesSignals: the first
\* signal of maximal weight among those that match, or 0
BestSignal(signals, q) ==
    LET hits == { n \in 1..Len(signals) : SignalMatches(signals[n], q) }
    IN  IF hits = {} THEN 0
        ELSE CHOOSE x \in hits :
                 \A y \in hits : \/ signals[x].weight > signals[y].weight
                                 \/ signals[x].weight = signals[y].weight /\ x <= y

Signal(confidence, reason, tables, trigger) ==
    [confidence |-> confidence, reason |-> reason, tables |-> tables, trigger |-> trigger]

analyzeDmsSignals(q) ==
    LET b == BestSignal(DmsSignals, q)
    IN  IF b = 0 THEN Signal(0, "", <<>>, <<>>)
        ELSE Signal(DmsSignals[b].weight, DmsSignals[b].context, DmsSignals[b].tables,
                    DmsSignals[b].keyword)

analyzeEntitiesSignals(q) ==
    LET b == BestSignal(EntitiesSignals, q)
    IN  IF b = 0
        THEN Signal(75, "No specific signal detected", <<"entity", "people", "address">>,
                    <<"d", "e", "f", "a", "u", "l", "t">>)
        ELSE Signal(EntitiesSignals[b].weight, EntitiesSignals[b].context,
                    EntitiesSignals[b].tables, EntitiesSignals[b].keyword)

\* The confidence is passed through
Clamp01Identity(confidence) == confidence

\* Math.min(1.0, Math.max(0.0, confidence))
Clamp01(confidence) == Min(100, Max(0, confidence))

\* buildDecision(target, confidence, reason, options)
buildDecision(target, confidence, reason, markdown, tables, matched, aiUsed) ==
    [target           |-> target,
     confidence       |-> Clamp01(confidence),
     reason           |-> reason,
     markdownResponse |-> markdown,
     tables           |-> tables,
     matched_pattern  |-> matched,
     ai_used          |-> aiUsed]

NoDecision == buildDecision("none", 0, "", "", <<>>, <<>>, FALSE)

\* buildGeneralMarkdown(question, category): the template chosen
buildGeneralMarkdown(category) ==
    IF category \in {"greeting", "identity", "capabilities", "help", "feedback", "meta"}
    THEN category ELSE "default"

Targets == {"entities", "dms", "unknown", "general"}

\* Answers of the routing call of the model; target "other" stands for a
\* missing or unlisted target, confType "other" for a non-numeric confidence
RoutingAnswer(kind, target, confType, confidence, markdown) ==
    [kind |-> kind, target |-> target, confType |-> confType,
     confidence |-> confidence, markdownResponse |-> markdown]

RoutingAnswers ==
    { RoutingAnswer(k, "other", "other", 0, "") : k \in {"error", "empty", "badjson", "null"} }
    \cup { RoutingAnswer("json", t, c[1], c[2], m) :
             t \in Targets \cup {"other"},
             c \in {<<"other", 0>>, <<"number", -20>>, <<"number", 92>>, <<"number", 150>>},
             m \in {"", "ai"} }

\* callAI(question) given the answer of the model: the decision, or null
\* (isNull); every exception is caught inside callAI
callAI(r) ==
    IF r.kind # "json" \/ r.target \notin Targets
    THEN [isNull |-> TRUE, decision |-> NoDecision]
    ELSE [isNull |-> FALSE,
          decision |->
            [target           |-> r.target,
             confidence       |-> IF r.confType = "number" THEN Clamp01(r.confidence) ELSE 50,
             reason           |-> "AI decision",
             markdownResponse |-> IF r.target = "general" /\ r.markdownResponse = ""
                                  THEN buildGeneralMarkdown("ai_fallback")
                                  ELSE r.markdownResponse,
             tables           |-> <<>>,
             matched_pattern  |-> <<>>,
             ai_used          |-> TRUE]]

\* A fallback that prefers dms when the two scores are tied
FallbackDecisionOnTie(dmsSignal, entitiesSignal) ==
    IF dmsSignal.confidence >= entitiesSignal.confidence
    THEN buildDecision("dms", Max(dmsSignal.confidence, 50), "Fallback: DMS signal stronger",
                       "", dmsSignal.tables, dmsSignal.trigger, FALSE)
    ELSE buildDecision("entities", Max(entitiesSignal.confidence, 70),
                       "Fallback: Entities signal stronger or default",
                       "", entitiesSignal.tables, entitiesSignal.trigger, FALSE)

\* Step 6 of routeQuestion: signal-based fallback
FallbackDecision(dmsSignal, entitiesSignal) ==
    IF dmsSignal.confidence > entitiesSignal.confidence
    THEN buildDecision("dms", Max(dmsSignal.confidence, 50), "Fallback: DMS signal stronger",
                       "", dmsSignal.tables, dmsSignal.trigger, FALSE)
    ELSE buildDecision("entities", Max(entitiesSignal.confidence, 70),
                       "Fallback: Entities signal stronger or default",
                       "", entitiesSignal.tables, entitiesSignal.trigger, FALSE)

WHello ==
    <<"h", "e", "l", "l", "o">>
WShowMe ==
    <<"S", "h", "o", "w", " ", "m", "e", " ">>
WTicket ==
    <<"t", "i", "c", "k", "e", "t">>
WTicketId ==
    <<"T", "K", "2", "1", "8", "5", "5", "2">>
WSupplier ==
    <<"s", "u", "p", "p", "l", "i", "e", "r">>
WClient ==
    <<"c", "l", "i", "e", "n", "t">>
WPending ==
    <<"p", "e", "n", "d", "i", "n", "g">>
WBalance ==
    <<"b", "a", "l", "a", "n", "c", "e">>
WEntity ==
    <<"E", "n", "t", "i", "t", "y">>
WSpace ==
    <<" ">>
WQuestionMark ==
    <<"?">>
WHyphen ==
    <<"-">>
WUnderscore ==
    <<"_">>

\* Number of pieces a question is made of
MaxQuestionPieces == 3

QuestionPieces ==
    {WHello, WShowMe, WTicket, WTicketId, WSupplier, WClient, WPending, WBalance,
     WEntity, WSpace, WQuestionMark, WHyphen, WUnderscore}

RECURSIVE QuestionsOf(_)
QuestionsOf(n) ==
    IF n = 0 THEN {<<>>}
    ELSE LET shorter == QuestionsOf(n - 1)
         IN  shorter \cup { q \o p : q \in shorter, p \in QuestionPieces }

\* A question with a ticket number, as users write them
WTicketQuestion ==
    <<"s", "h", "o", "w", " ", "m", "e", " ", "t", "i", "c", "k", "e", "t", " ",
      "T", "K", "2", "1", "8", "5", "5", "2">>

Questions == QuestionsOf(MaxQuestionPieces) \cup {WTicketQuestion}

VARIABLES
    rtPc,        \* "idle", "start", "signals", "ai" (awaiting callAI), "done"
    rtQuestion,  \* the argument of routeQuestion
    rtDms,       \* local dmsSignal
    rtEntities,  \* local entitiesSignal
    rtDecision,  \* the RoutingDecision returned
    rtAnswer,    \* the answer of the model to the routing call
    rtAiCalls    \* number of calls of the model made by the router

rtVars == <<rtPc, rtQuestion, rtDms, rtEntities, rtDecision, rtAnswer, rtAiCalls>>

NoAnswer == RoutingAnswer("none", "other", "other", 0, "")

NoSignal == Signal(0, "", <<>>, <<>>)

RtIdle ==
    /\ rtPc = "idle"
    /\ rtQuestion = <<>>
    /\ rtDms = NoSignal
    /\ rtEntities = NoSignal
    /\ rtDecision = NoDecision
    /\ rtAnswer = NoAnswer
    /\ rtAiCalls = 0

\* The call is over: its locals are gone
RtEnd ==
    /\ rtPc' = "idle"
    /\ rtQuestion' = <<>>
    /\ rtDms' = NoSignal
    /\ rtEntities' = NoSignal
    /\ rtDecision' = NoDecision
    /\ rtAnswer' = NoAnswer
    /\ rtAiCalls' = 0

RtStart(question) ==
    /\ rtPc' = "start"
    /\ rtQuestion' = question
    /\ rtDms' = NoSignal
    /\ rtEntities' = NoSignal
    /\ rtDecision' = NoDecision
    /\ rtAnswer' = NoAnswer
    /\ rtAiCalls' = 0

\* A blank question takes the default of the entities signals
RouteEmptyDefaulting ==
    /\ rtPc = "start"
    /\ Trim(rtQuestion) = <<>>
    /\ rtDecision' = buildDecision("entities", 75, "No specific signal detected", "",
                                   <<>>, <<>>, FALSE)
    /\ rtPc' = "done"
    /\ UNCHANGED <<rtQuestion, rtDms, rtEntities, rtAnswer, rtAiCalls>>

\* question = question.trim(); if (!question) return unknown
RouteEmpty ==
    /\ rtPc = "start"
    /\ Trim(rtQuestion) = <<>>
    /\ rtDecision' = buildDecision("unknown", 0, "Empty question received.", "",
                                   <<>>, <<>>, FALSE)
    /\ rtPc' = "done"
    /\ UNCHANGED <<rtQuestion, rtDms, rtEntities, rtAnswer, rtAiCalls>>

\* Step 2: a conversational pattern matches the normalized question
RouteGeneral ==
    /\ rtPc = "start"
    /\ Trim(rtQuestion) # <<>>
    /\ \E normalized \in {normalizeQuestion(Trim(rtQuestion))} :
          \E general \in {matchGeneralPattern(normalized)} :
              /\ general # 0
              /\ rtDecision' =
                     buildDecision("general", 95, "Matched general pattern",
                                   buildGeneralMarkdown(GeneralPatterns[general].category),
                                   <<>>, <<GeneralPatterns[general].pattern>>, FALSE)
    /\ rtPc' = "done"
    /\ UNCHANGED <<rtQuestion, rtDms, rtEntities, rtAnswer, rtAiCalls>>

\* Steps 3 and 4 begin: the keyword signals of the normalized question
RouteSignals ==
    /\ rtPc = "start"
    /\ Trim(rtQuestion) # <<>>
    /\ \E normalized \in {normalizeQuestion(Trim(rtQuestion))} :
          /\ matchGeneralPattern(normalized) = 0
          /\ rtDms' = analyzeDmsSignals(normalized)
          /\ rtEntities' = analyzeEntitiesSignals(normalized)
    /\ rtPc' = "signals"
    /\ UNCHANGED <<rtQuestion, rtDecision, rtAnswer, rtAiCalls>>

\* Step 3: if (dmsSignal.confidence >= 0.8)
StrongDms(signal) == signal.confidence >= 80

\* A threshold no keyword reaches
StrongEntitiesStrict(signal) == signal.confidence >= 99

\* Step 4: if (entitiesSignal.confidence >= 0.85)
StrongEntities(signal) == signal.confidence >= 85

RouteDms ==
    /\ rtPc = "signals"
    /\ StrongDms(rtDms)
    /\ rtDecision' = buildDecision("dms", rtDms.confidence, "Strong DMS signal", "",
                                   rtDms.tables, rtDms.trigger, FALSE)
    /\ rtPc' = "done"
    /\ UNCHANGED <<rtQuestion, rtDms, rtEntities, rtAnswer, rtAiCalls>>

RouteEntities ==
    /\ rtPc = "signals"
    /\ ~StrongDms(rtDms)
    /\ StrongEntities(rtEntities)
    /\ rtDecision' = buildDecision("entities", rtEntities.confidence,
                                   "Strong Entities signal", "",
                                   rtEntities.tables, rtEntities.trigger, FALSE)
    /\ rtPc' = "done"
    /\ UNCHANGED <<rtQuestion, rtDms, rtEntities, rtAnswer, rtAiCalls>>

\* Step 5: the model is called
RouteCallAI ==
    /\ rtPc = "signals"
    /\ ~StrongDms(rtDms)
    /\ ~StrongEntities(rtEntities)
    /\ rtAiCalls' = rtAiCalls + 1
    /\ rtPc' = "ai"
    /\ UNCHANGED <<rtQuestion, rtDms, rtEntities, rtDecision, rtAnswer>>

\* callAI returned a decision: it is returned with ai_used set
RouteAIDecides(A) ==
    /\ rtPc = "ai"
    /\ \E r \in A :
          /\ ~callAI(r).isNull
          /\ rtAnswer' = r
          /\ rtDecision' = callAI(r).decision
    /\ rtPc' = "done"
    /\ UNCHANGED <<rtQuestion, rtDms, rtEntities, rtAiCalls>>

\* callAI returned null: step 6
RouteAIFallback(A) ==
    /\ rtPc = "ai"
    /\ \E r \in A : callAI(r).isNull /\ rtAnswer' = r
    /\ rtDecision' = FallbackDecision(rtDms, rtEntities)
    /\ rtPc' = "done"
    /\ UNCHANGED <<rtQuestion, rtDms, rtEntities, rtAiCalls>>

(***************************************************************************)
(* Batch cleanup: DataCleanupService.cleanDataBatch                        *)
(***************************************************************************)
\* One more request than the configured limit
MAX_CONCURRENT_REQUESTS_Raised == 3 + 1

\* CONFIG.MAX_CONCURRENT_REQUESTS
MAX_CONCURRENT_REQUESTS == 3

\* One attempt fewer than configured
RETRY_ATTEMPTS_Fewer == 3 - 1

\* CONFIG.RETRY_ATTEMPTS
RETRY_ATTEMPTS == 3

\* CONFIG.RETRY_DELAY_BASE (ms)
RETRY_DELAY_BASE == 1000

\* CONFIG.MAX_BYTES_PER_CHUNK
MAX_BYTES_PER_CHUNK == 3000

\* A table row: its key and the byte length of its JSON text
Row(id, size) == [id |-> id, size |-> size]

NoRow == Row(0, 0)

\* Math.ceil(a / b) for positive b
CeilDiv(a, b) == (a + b - 1) \div b

RECURSIVE SumSizes(_)
SumSizes(rows) ==
    IF rows = <<>> THEN 0 ELSE Head(rows).size + SumSizes(Tail(rows))

\* Buffer.byteLength(JSON.stringify(rows), "utf8"): the brackets, the rows
\* and the commas between them
jsonSizeInBytes(rows) == 2 + SumSizes(rows) + (Len(rows) - 1)

calculateChunkCount(rows) ==
    IF Len(rows) = 0 THEN 0
    ELSE Max(1, CeilDiv(jsonSizeInBytes(rows), MAX_BYTES_PER_CHUNK))

\* chunk(arr, size): slices of size elements, the last one shorter
chunk(arr, size) ==
    [k \in 1..CeilDiv(Len(arr), size) |->
        SubSeq(arr, (k - 1) * size + 1, Min(k * size, Len(arr)))]

\* const batchSize = Math.ceil(rows.length / this.calculateChunkCount(rows))
batchSize(rows) == CeilDiv(Len(rows), calculateChunkCount(rows))

\* A CleanResult; hasOriginal is FALSE when the object has no `original`
CleanResult(hasOriginal, original, cleaned, changes, needsReview, isFailed) ==
    [hasOriginal |-> hasOriginal, original |-> original, cleaned |-> cleaned,
     changes |-> changes, needsReview |-> needsReview, isFailed |-> isFailed]

fallbackBatch(batch) ==
    [k \in 1..Len(batch) |-> CleanResult(TRUE, batch[k], batch[k], {}, TRUE, TRUE)]

\* The `changes` of an item of the model: absent, or the fields changed
Changes(present, fields) == [present |-> present, fields |-> fields]

\* An item of the `results` array of the model; needsReview is "true",
\* "false" or "absent"
Item(cleaned, changes, needsReview) ==
    [cleaned |-> cleaned, changes |-> changes, needsReview |-> needsReview]

\* Boolean(r.needsReview)
ToBoolean(flag) == flag = "true"

\* r.changes ?? {}
ChangesOrEmpty(changes) == IF changes.present THEN changes.fields ELSE {}

\* The map of callAIWithTimeout: `original` is not copied, isFailed is false
MapItem(r) ==
    CleanResult(FALSE, NoRow, r.cleaned, ChangesOrEmpty(r.changes),
                ToBoolean(r.needsReview), FALSE)

MapItems(items) == [k \in 1..Len(items) |-> MapItem(items[k])]

\* An answer of the model to a cleanup call: kind "ok" carries parsed.results
CleanAnswer(kind, items) == [kind |-> kind, items |-> items]

\* The answers that make callAIWithTimeout throw: the abort after TIMEOUT_MS,
\* a failed call, empty content, content that is not JSON
CleanFailureKinds == {"timeout", "error", "empty", "badjson"}

\* The item the model returns for a row
ItemFor(row, flavour) ==
    CASE flavour = "safe"   -> Item(row, Changes(TRUE, {"email"}), "false")
      [] flavour = "same"   -> Item(row, Changes(FALSE, {}), "absent")
      [] flavour = "review" -> Item(row, Changes(TRUE, {"phone"}), "true")

\* The items of a batch, shortened or extended by delta items
ItemsFor(batch, flavour, delta) ==
    [k \in 1..Max(0, Len(batch) + delta) |->
        IF k <= Len(batch) THEN ItemFor(batch[k], flavour) ELSE ItemFor(NoRow, flavour)]

\* Answers used with whole cleanup runs
CoreCleanAnswers(batch) ==
    {CleanAnswer("timeout", <<>>)}
    \cup { CleanAnswer("ok", ItemsFor(batch, "safe", d)) : d \in {-1, 0, 1} }

\* Every kind of answer
AllCleanAnswers(batch) ==
    { CleanAnswer(k, <<>>) : k \in CleanFailureKinds }
    \cup { CleanAnswer("ok", ItemsFor(batch, f, d)) :
             f \in {"safe", "same", "review"}, d \in {-1, 0, 1} }

\* An answer of the model to the key-field call: kind "error" when the call
\* fails, "absent" when the message has no content, "text" with the content
KeyAnswer(kind, content) == [kind |-> kind, content |-> content]

\* s.replace(/["']/g, "")
StripQuotes(s) == SelectSeq(s, LAMBDA c : c \notin {"\"", "'"})

\* Object.keys(row) of a table row
Columns == {"id", "email", "phone"}

ColumnText ==
    [c \in Columns |->
        CASE c = "id"    -> <<"i", "d">>
          [] c = "email" -> <<"e", "m", "a", "i", "l">>
          [] c = "phone" -> <<"p", "h", "o", "n", "e">>]

\* What suggestKeyFieldFromRow does with an answer
KeyOutcome(threw, field) == [threw |-> threw, field |-> field]

\* suggestKeyFieldFromRow(row); hasRow is FALSE when row is undefined, and
\* Object.keys(row) then throws. The catch block rethrows
suggestKeyFieldFromRow(answer, hasRow) ==
    IF answer.kind = "error" THEN KeyOutcome(TRUE, "")
    ELSE IF answer.kind = "absent" THEN KeyOutcome(FALSE, "id")
    ELSE LET hits == { c \in Columns :
                         ColumnText[c] = StripQuotes(Trim(answer.content)) }
         IN  IF StripQuotes(Trim(answer.content)) = <<>> THEN KeyOutcome(FALSE, "id")
             ELSE IF ~hasRow THEN KeyOutcome(TRUE, "")
             ELSE IF hits = {} THEN KeyOutcome(FALSE, "id")
             ELSE KeyOutcome(FALSE, CHOOSE c \in hits : TRUE)

\* Key answers used with whole cleanup runs
CoreKeyAnswers ==
    {KeyAnswer("error", <<>>), KeyAnswer("text", <<"e", "m", "a", "i", "l">>)}

\* Every kind of key answer: a column, a column in quotes, a name that is
\* not a column, a column with a space inside the quotes, quotes alone
AllKeyAnswers ==
    {KeyAnswer("error", <<>>), KeyAnswer("absent", <<>>)}
    \cup { KeyAnswer("text", t) :
             t \in { <<"i", "d">>,
                     <<" ", "\"", "e", "m", "a", "i", "l", "\"", "\n">>,
                     <<"u", "u", "i", "d">>,
                     <<"\"", " ", "e", "m", "a", "i", "l", "\"">>,
                     <<"'", "'">> } }

VARIABLES
    clPc,         \* "idle", "start", "key" (awaiting suggestKeyFieldFromRow),
                  \* "race" (awaiting Promise.race), "settle" (awaiting
                  \* Promise.allSettled), "returned", "threw"
    clRows,       \* rows
    clBatches,    \* batches
    clBatchIndex, \* batchIndex
    clExecuting,  \* executing: the batches whose promise is in the array
    clTask,       \* per batch: where its promise stands and the loop variable attempt
    clResults,    \* results
    clOrigin,     \* for each element of results, the batch whose promise pushed it
    clFailures,   \* per batch: the number of attempts that threw
    clKeyAnswer,  \* the answer of the model to the key-field call
    clSuggested,  \* suggestedKeyField
    clDelays,     \* per batch: the arguments of the calls of delay
    clErrors      \* per batch: what made each failed attempt throw

clVars ==
    <<clPc, clRows, clBatches, clBatchIndex, clExecuting, clTask, clResults,
      clOrigin, clFailures, clKeyAnswer, clSuggested, clDelays, clErrors>>

\* st: "none" (not admitted), "calling" (awaiting the model), "backoff"
\* (awaiting delay), "settled"
Task(st, attempt) == [st |-> st, attempt |-> attempt]

ClIdle ==
    /\ clPc = "idle"
    /\ clRows = <<>>
    /\ clBatches = <<>>
    /\ clBatchIndex = 0
    /\ clExecuting = <<>>
    /\ clTask = <<>>
    /\ clResults = <<>>
    /\ clOrigin = <<>>
    /\ clFailures = <<>>
    /\ clKeyAnswer = KeyAnswer("none", <<>>)
    /\ clSuggested = ""
    /\ clDelays = <<>>
    /\ clErrors = <<>>

\* if (rows.length === 0) return []
ClEmpty ==
    /\ clPc = "start"
    /\ Len(clRows) = 0
    /\ clPc' = "returned"
    /\ UNCHANGED <<clRows, clBatches, clBatchIndex, clExecuting, clTask, clResults,
                   clOrigin, clFailures, clKeyAnswer, clSuggested, clDelays, clErrors>>

\* The rows are split and suggestKeyFieldFromRow(rows[0]) is awaited
ClSplit ==
    /\ clPc = "start"
    /\ Len(clRows) # 0
    /\ clBatches' = chunk(clRows, batchSize(clRows))
    /\ clTask' = [i \in 1..Len(clBatches') |-> Task("none", 0)]
    /\ clFailures' = [i \in 1..Len(clBatches') |-> 0]
    /\ clDelays' = [i \in 1..Len(clBatches') |-> <<>>]
    /\ clErrors' = [i \in 1..Len(clBatches') |-> <<>>]
    /\ clPc' = "key"
    /\ UNCHANGED <<clRows, clBatchIndex, clExecuting, clResults, clOrigin, clKeyAnswer,
                   clSuggested>>

\* suggestKeyFieldFromRow rethrows the failure of its call of the model
ClKeyFails(answers) ==
    /\ clPc = "key"
    /\ \E a \in answers :
          /\ suggestKeyFieldFromRow(a, TRUE).threw
          /\ clKeyAnswer' = a
    /\ clPc' = "threw"
    /\ UNCHANGED <<clRows, clBatches, clBatchIndex, clExecuting, clTask, clResults,
                   clOrigin, clFailures, clSuggested, clDelays, clErrors>>

\* executing.length < concurrencyLimit && batchIndex < batches.length: the
\* number of batches the inner loop admits
Admissions(executing, batchIndex, batches) ==
    Max(0, Min(MAX_CONCURRENT_REQUESTS - Len(executing), Len(batches) - batchIndex))

\* The main loop runs from where it stands until its next await: it admits
\* batches up to the limit, each promise calling the model at once, then awaits
\* Promise.race at the limit and Promise.allSettled after the last batch
MainLoop(executing, tasks) ==
    LET n == Admissions(executing, clBatchIndex, clBatches)
    IN  /\ clBatchIndex' = clBatchIndex + n
        /\ clExecuting' = executing \o [k \in 1..n |-> clBatchIndex + k]
        /\ clTask' = [i \in DOMAIN tasks |->
                         IF i > clBatchIndex /\ i <= clBatchIndex + n
                         THEN Task("calling", 0) ELSE tasks[i]]
        /\ clPc' = IF Len(executing) + n >= MAX_CONCURRENT_REQUESTS THEN "race"
                   ELSE IF Len(executing) + n = 0 THEN "returned"
                   ELSE "settle"

\* The key field is suggested and the main loop starts
ClKeySuggested(answers) ==
    /\ clPc = "key"
    /\ \E a \in answers :
          /\ ~suggestKeyFieldFromRow(a, TRUE).threw
          /\ clKeyAnswer' = a
          /\ clSuggested' = suggestKeyFieldFromRow(a, TRUE).field
    /\ MainLoop(clExecuting, clTask)
    /\ UNCHANGED <<clRows, clBatches, clResults, clOrigin, clFailures, clDelays, clErrors>>

\* executing.splice(executing.indexOf(promise), 1)
Splice(executing, i) == SelectSeq(executing, LAMBDA j : j # i)

\* The promise of batch i pushes its results and settles; its reaction
\* splices it from executing and the awaiting main loop goes on
Settle(i, cleaned) ==
    /\ clResults' = clResults \o cleaned
    /\ clOrigin' = clOrigin \o [k \in 1..Len(cleaned) |-> i]
    /\ MainLoop(Splice(clExecuting, i), [clTask EXCEPT ![i].st = "settled"])

\* callAIWithTimeout resolves: processBatchWithRetry returns the mapped items
ClBatchSucceeds(i, answers) ==
    /\ clPc \in {"race", "settle"}
    /\ clTask[i].st = "calling"
    /\ \E a \in answers : a.kind = "ok" /\ Settle(i, MapItems(a.items))
    /\ UNCHANGED <<clRows, clBatches, clFailures, clKeyAnswer, clSuggested, clDelays,
                   clErrors>>

\* for (let attempt = 0; attempt < MAX_RETRIES; attempt++)
AttemptsRemain(attempt) == attempt < RETRY_ATTEMPTS - 1

\* The same delay after every failed attempt
BackoffDelayFlat(attempt) == RETRY_DELAY_BASE

\* CONFIG.RETRY_DELAY_BASE * Math.pow(2, attempt)
BackoffDelay(attempt) == RETRY_DELAY_BASE * 2 ^ attempt

\* callAIWithTimeout throws and attempts remain: delay(base * 2 ^ attempt)
ClAttemptFails(i, answers) ==
    /\ clPc \in {"race", "settle"}
    /\ clTask[i].st = "calling"
    /\ AttemptsRemain(clTask[i].attempt)
    /\ \E a \in answers :
          /\ a.kind # "ok"
          /\ clErrors' = [clErrors EXCEPT ![i] = Append(@, a.kind)]
    /\ clDelays' = [clDelays EXCEPT ![i] = Append(@, BackoffDelay(clTask[i].attempt))]
    /\ clTask' = [clTask EXCEPT ![i].st = "backoff"]
    /\ clFailures' = [clFailures EXCEPT ![i] = @ + 1]
    /\ UNCHANGED <<clPc, clRows, clBatches, clBatchIndex, clExecuting, clResults, clOrigin,
                   clKeyAnswer, clSuggested>>

\* The delay is over: the next attempt calls the model
ClBackoffElapses(i) ==
    /\ clPc \in {"race", "settle"}
    /\ clTask[i].st = "backoff"
    /\ clTask' = [clTask EXCEPT ![i] = Task("calling", @.attempt + 1)]
    /\ UNCHANGED <<clPc, clRows, clBatches, clBatchIndex, clExecuting, clResults,
                   clOrigin, clFailures, clKeyAnswer, clSuggested, clDelays, clErrors>>

\* The last attempt throws: processBatchWithRetry returns fallbackBatch(batch)
ClBatchExhausted(i, answers) ==
    /\ clPc \in {"race", "settle"}
    /\ clTask[i].st = "calling"
    /\ ~AttemptsRemain(clTask[i].attempt)
    /\ \E a \in answers :
          /\ a.kind # "ok"
          /\ clErrors' = [clErrors EXCEPT ![i] = Append(@, a.kind)]
    /\ clFailures' = [clFailures EXCEPT ![i] = @ + 1]
    /\ Settle(i, fallbackBatch(clBatches[i]))
    /\ UNCHANGED <<clRows, clBatches, clKeyAnswer, clSuggested, clDelays>>

\* Answers(batch) is the set of answers the model may give for a batch
CleanStepCore ==
    \/ ClEmpty
    \/ ClSplit
    \/ ClKeyFails(CoreKeyAnswers)
    \/ ClKeySuggested(CoreKeyAnswers)
    \/ \E i \in DOMAIN clTask : ClBatchSucceeds(i, CoreCleanAnswers(clBatches[i]))
    \/ \E i \in DOMAIN clTask : ClAttemptFails(i, CoreCleanAnswers(clBatches[i]))
    \/ \E i \in DOMAIN clTask : ClBackoffElapses(i)
    \/ \E i \in DOMAIN clTask : ClBatchExhausted(i, CoreCleanAnswers(clBatches[i]))

\* One run with every kind of answer
CleanStepAll ==
    \/ ClEmpty
    \/ ClSplit
    \/ ClKeyFails(AllKeyAnswers)
    \/ ClKeySuggested(AllKeyAnswers)
    \/ \E i \in DOMAIN clTask : ClBatchSucceeds(i, AllCleanAnswers(clBatches[i]))
    \/ \E i \in DOMAIN clTask : ClAttemptFails(i, AllCleanAnswers(clBatches[i]))
    \/ \E i \in DOMAIN clTask : ClBackoffElapses(i)
    \/ \E i \in DOMAIN clTask : ClBatchExhausted(i, AllCleanAnswers(clBatches[i]))

\* Tables: n rows with keys 1..n whose JSON text has size bytes each
Table(n, size) == [i \in 1..n |-> Row(i, size)]

\* Largest number of rows of the tables of ordinary rows
MaxTableRows == 7

Tables ==
    { Table(n, 1200) : n \in 0..MaxTableRows }
    \cup {Table(1, 7000), Table(4, 1700), Table(4, 2900)}

\* Tables of one batch, and none
BatchTables == {Table(0, 1200), Table(1, 1200), Table(2, 1200), Table(1, 7000)}

(***************************************************************************)
(* Apply step: DataCleanupService.applyCleanup and the loop of             *)
(* cleanupTableDataController                                              *)
(***************************************************************************)
\* !r.needsReview && Object.keys(r.changes).length > 0
IsSafe(r) == ~r.needsReview /\ r.changes # {}

\* A result that conforms to the CleanResult type: `original` is present
TypedResult(row, flavour) ==
    [MapItem(ItemFor(row, flavour)) EXCEPT !.hasOriginal = TRUE, !.original = row]

\* fallbackCleanResults of the service the controller uses: no isFailed
fallbackCleanResults(rows) ==
    [k \in 1..Len(rows) |-> CleanResult(TRUE, rows[k], rows[k], {}, TRUE, FALSE)]

\* The result at place k of the argument of the apply step, by kind: what
\* cleanDataBatch returns for a successful batch ("mapped", without
\* `original`) and for a failed one ("fallback"), and type-conforming results
ResultOfKind(kind, k) ==
    LET row == Row(k, 1200)
    IN  CASE kind = "mappedSafe"   -> MapItem(ItemFor(row, "safe"))
          [] kind = "mappedReview" -> MapItem(ItemFor(row, "review"))
          [] kind = "fallback"     -> fallbackBatch(<<row>>)[1]
          [] kind = "typedSafe"    -> TypedResult(row, "safe")
          [] kind = "typedSame"    -> TypedResult(row, "same")
          [] kind = "typedReview"  -> TypedResult(row, "review")
          [] kind = "ctlFallback"  -> fallbackCleanResults(<<row>>)[1]

\* applyCleanup receives results of cleanDataBatch of its class or results of
\* the declared type; the loop of the controller and applyCleanup of
\* services/azureOpenAi receive what cleanDataBatch of services/azureOpenAi
\* returns, where `original` is always set
ResultKinds(variant) ==
    IF variant = "service"
    THEN {"mappedSafe", "mappedReview", "fallback", "typedSafe", "typedSame"}
    ELSE {"typedSafe", "typedSame", "typedReview", "ctlFallback"}

\* Largest number of results given to the apply step
MaxApplyResults == 4

ApplyInputs(variant) ==
    UNION { { [k \in 1..n |-> ResultOfKind(kinds[k], k)] :
                kinds \in [1..n -> ResultKinds(variant)] } : n \in 0..MaxApplyResults }

VARIABLES
    apPc,           \* "idle", "start", "key" (awaiting suggestKeyFieldFromRow),
                    \* "race", "settle", "loop" and "update" (controller),
                    \* "returned", "threw"
    apVariant,      \* "service" (DataCleanupService.applyCleanup), "controller"
                    \* (the loop of the controller) or "legacy" (applyCleanup
                    \* of services/azureOpenAi, the same loop)
    apResults,      \* results
    apKeyField,     \* keyField: "" when the argument is absent
    apKf,           \* kf
    apSafe,         \* safeResults, as places in results
    apIndex,        \* index
    apExecuting,    \* executing, as places in safeResults
    apTask,         \* per safe result: "none", "updating", "done", "rejected"
    apUpdates,      \* the places in results for which model.update was called
    apUpdatedCount, \* updatedCount
    apErrors        \* errors.length

apVars ==
    <<apPc, apVariant, apResults, apKeyField, apKf, apSafe, apIndex, apExecuting,
      apTask, apUpdates, apUpdatedCount, apErrors>>

ApIdle ==
    /\ apPc = "idle"
    /\ apVariant = "none"
    /\ apResults = <<>>
    /\ apKeyField = ""
    /\ apKf = ""
    /\ apSafe = <<>>
    /\ apIndex = 0
    /\ apExecuting = <<>>
    /\ apTask = <<>>
    /\ apUpdates = <<>>
    /\ apUpdatedCount = 0
    /\ apErrors = 0

\* The places of results that pass the filter, in order
RECURSIVE SafePlaces(_, _)
SafePlaces(results, k) ==
    IF k > Len(results) THEN <<>>
    ELSE (IF IsSafe(results[k]) THEN <<k>> ELSE <<>>) \o SafePlaces(results, k + 1)

\* results.filter(...) leaves nothing: safeResults[0].original throws
ApNothingSafe ==
    /\ apPc = "start"
    /\ apVariant = "service"
    /\ SafePlaces(apResults, 1) = <<>>
    /\ apPc' = "threw"
    /\ UNCHANGED <<apVariant, apResults, apKeyField, apKf, apSafe, apIndex, apExecuting,
                   apTask, apUpdates, apUpdatedCount, apErrors>>

\* The safe results are selected; suggestKeyFieldFromRow is awaited
ApFilter ==
    /\ apPc = "start"
    /\ apVariant = "service"
    /\ SafePlaces(apResults, 1) # <<>>
    /\ apSafe' = SafePlaces(apResults, 1)
    /\ apTask' = [i \in 1..Len(apSafe') |-> "none"]
    /\ apPc' = "key"
    /\ UNCHANGED <<apVariant, apResults, apKeyField, apKf, apIndex, apExecuting,
                   apUpdates, apUpdatedCount, apErrors>>

\* suggestKeyFieldFromRow throws: its call of the model failed, or the model
\* named a field and the row is undefined (Object.keys(undefined))
ApKeyFails ==
    /\ apPc = "key"
    /\ \E a \in AllKeyAnswers :
          suggestKeyFieldFromRow(a, apResults[apSafe[1]].hasOriginal).threw
    /\ apPc' = "threw"
    /\ UNCHANGED <<apVariant, apResults, apKeyField, apKf, apSafe, apIndex, apExecuting,
                   apTask, apUpdates, apUpdatedCount, apErrors>>

\* An inner loop without the test of executing.length
ApAdmissionsUnbounded(executing) == Len(apSafe) - apIndex

\* executing.length < concurrencyLimit && index < safeResults.length
ApAdmissions(executing) ==
    Max(0, Min(MAX_CONCURRENT_REQUESTS - Len(executing), Len(apSafe) - apIndex))

\* result.original[kf] throws when the result has no `original`, in the try
\* block and again in the catch block: the promise is rejected and
\* model.update is not called
UpdateThrows(i) == ~apResults[apSafe[i]].hasOriginal

\* The main loop of applyCleanup runs until its next await. Each admitted
\* result either has model.update called or its promise rejected at once; at
\* the limit Promise.race rejects if a promise of executing is rejected
ApMainLoop(executing, tasks) ==
    LET n        == ApAdmissions(executing)
        admitted == { i \in 1..Len(apSafe) : i > apIndex /\ i <= apIndex + n }
        issued   == { i \in admitted : ~UpdateThrows(i) }
    IN  /\ apIndex' = apIndex + n
        /\ apTask' = [i \in DOMAIN tasks |->
                         IF i \in issued THEN "updating"
                         ELSE IF i \in admitted THEN "rejected"
                         ELSE tasks[i]]
        /\ apUpdates' = apUpdates
                        \o [k \in 1..Cardinality(issued) |->
                              apSafe[CHOOSE i \in issued :
                                  Cardinality({ j \in issued : j <= i }) = k]]
        /\ apExecuting' = SelectSeq(executing \o [k \in 1..n |-> apIndex + k],
                                     LAMBDA i : i \notin admitted \/ i \in issued)
        /\ apPc' = IF Len(executing) + n >= MAX_CONCURRENT_REQUESTS
                   THEN (IF admitted # issued THEN "threw" ELSE "race")
                   ELSE IF Len(apExecuting') = 0 THEN "returned"
                   ELSE "settle"

\* The key field is known and the main loop starts
ApKeySuggested ==
    /\ apPc = "key"
    /\ \E a \in AllKeyAnswers :
          LET suggested == suggestKeyFieldFromRow(a, apResults[apSafe[1]].hasOriginal)
          IN  /\ ~suggested.threw
              /\ apKf' = IF apKeyField # "" THEN apKeyField ELSE suggested.field
    /\ ApMainLoop(apExecuting, apTask)
    /\ UNCHANGED <<apVariant, apResults, apKeyField, apSafe, apUpdatedCount, apErrors>>

\* model.update resolves: updatedCount++
ApUpdateResolves(i) ==
    /\ apPc \in {"race", "settle"}
    /\ apTask[i] = "updating"
    /\ apUpdatedCount' = apUpdatedCount + 1
    /\ ApMainLoop(Splice(apExecuting, i), [apTask EXCEPT ![i] = "done"])
    /\ UNCHANGED <<apVariant, apResults, apKeyField, apKf, apSafe, apErrors>>

\* model.update rejects: the message is pushed to errors
ApUpdateRejects(i) ==
    /\ apPc \in {"race", "settle"}
    /\ apTask[i] = "updating"
    /\ apErrors' = apErrors + 1
    /\ ApMainLoop(Splice(apExecuting, i), [apTask EXCEPT ![i] = "done"])
    /\ UNCHANGED <<apVariant, apResults, apKeyField, apKf, apSafe, apUpdatedCount>>

\* The sequential loop, of the controller and of applyCleanup of
\* services/azureOpenAi: keyField defaults to "id"
ApCtlBegin ==
    /\ apPc = "start"
    /\ apVariant \in {"controller", "legacy"}
    /\ apKf' = IF apKeyField # "" THEN apKeyField ELSE "id"
    /\ apPc' = "loop"
    /\ UNCHANGED <<apVariant, apResults, apKeyField, apSafe, apIndex, apExecuting,
                   apTask, apUpdates, apUpdatedCount, apErrors>>

\* if (result.needsReview || Object.keys(result.changes).length === 0) continue
ApCtlSkip ==
    /\ apPc = "loop"
    /\ apIndex < Len(apResults)
    /\ ~IsSafe(apResults[apIndex + 1])
    /\ apIndex' = apIndex + 1
    /\ UNCHANGED <<apPc, apVariant, apResults, apKeyField, apKf, apSafe, apExecuting,
                   apTask, apUpdates, apUpdatedCount, apErrors>>

\* await model.update(...)
ApCtlUpdate ==
    /\ apPc = "loop"
    /\ apIndex < Len(apResults)
    /\ IsSafe(apResults[apIndex + 1])
    /\ apUpdates' = Append(apUpdates, apIndex + 1)
    /\ apPc' = "update"
    /\ UNCHANGED <<apVariant, apResults, apKeyField, apKf, apSafe, apIndex, apExecuting,
                   apTask, apUpdatedCount, apErrors>>

\* The update resolves (updatedCount++) or rejects (errors.push)
ApCtlUpdateSettles ==
    /\ apPc = "update"
    /\ \/ apUpdatedCount' = apUpdatedCount + 1 /\ UNCHANGED apErrors
       \/ apErrors' = apErrors + 1 /\ UNCHANGED apUpdatedCount
    /\ apIndex' = apIndex + 1
    /\ apPc' = "loop"
    /\ UNCHANGED <<apVariant, apResults, apKeyField, apKf, apSafe, apExecuting, apTask,
                   apUpdates>>

\* The loop is over: the counts are returned
ApCtlReturn ==
    /\ apPc = "loop"
    /\ apIndex = Len(apResults)
    /\ apPc' = "returned"
    /\ UNCHANGED <<apVariant, apResults, apKeyField, apKf, apSafe, apIndex, apExecuting,
                   apTask, apUpdates, apUpdatedCount, apErrors>>

ApplyStep ==
    \/ ApNothingSafe
    \/ ApFilter
    \/ ApKeyFails
    \/ ApKeySuggested
    \/ \E i \in DOMAIN apTask : ApUpdateResolves(i)
    \/ \E i \in DOMAIN apTask : ApUpdateRejects(i)
    \/ ApCtlBegin
    \/ ApCtlSkip
    \/ ApCtlUpdate
    \/ ApCtlUpdateSettles
    \/ ApCtlReturn

(***************************************************************************)
(* Correction loop: naturalLanguageQueryController                         *)
(***************************************************************************)
\* An off-by-one maximum
MAX_CORRECTION_ATTEMPTS_Off == 2 + 1

MAX_CORRECTION_ATTEMPTS == 2

\* Number of distinct error messages the database may answer with
MaxDbError == 1

DbErrors == 1..MaxDbError

VARIABLES
    pc,               \* "idle", "start", "route", "plan", "exec", "regen", "done"
    reqQuestion,      \* req.body.question: [isString, text]
    reqLimit,         \* req.body.limit, 0 when absent
    cleanedQuestion,
    routingDecision,
    aiService,        \* variant of the generator chosen
    prismaClient,     \* connection chosen
    queryPlan,
    finalSql,
    attempts,
    errorFeedbackLog,
    sqlToRun,         \* statement handed to $queryRawUnsafe
    executions,       \* every $queryRawUnsafe call: [sql, client, failed]
    regenerations,    \* corrections argument of every regeneration call
    httpResponse

ctlVars ==
    <<pc, reqQuestion, reqLimit, cleanedQuestion, routingDecision, aiService,
      prismaClient, queryPlan, finalSql, attempts, errorFeedbackLog, sqlToRun,
      executions, regenerations, httpResponse>>

vars == <<ctlVars, genVars, rtVars, clVars, apVars>>

Reply(status, kind, sql, explanation, correctionAttempts, errorFeedback, dataSource) ==
    [status |-> status, kind |-> kind, sql |-> sql, explanation |-> explanation,
     correctionAttempts |-> correctionAttempts, errorFeedback |-> errorFeedback,
     dataSource |-> dataSource]

NoReply == Reply(0, "none", <<>>, <<>>, 0, <<>>, "none")

\* RouteError.BadRequest(...)
BadRequest == Reply(400, "badRequest", <<>>, <<>>, 0, <<>>, "none")

CtlIdle ==
    /\ pc = "idle"
    /\ reqQuestion = [isString |-> FALSE, text |-> <<>>]
    /\ reqLimit = 0
    /\ cleanedQuestion = <<>>
    /\ routingDecision = NoDecision
    /\ aiService = "none"
    /\ prismaClient = "none"
    /\ queryPlan = NoPlan
    /\ finalSql = <<>>
    /\ attempts = 0
    /\ errorFeedbackLog = <<>>
    /\ sqlToRun = <<>>
    /\ executions = <<>>
    /\ regenerations = <<>>
    /\ httpResponse = NoReply

\* !question || typeof question !== "string" || !question.trim()
InvalidQuestion(q) == ~q.isString \/ Trim(q.text) = <<>>

\* The aiService chosen for a target
ServiceFor(target) == IF target = "entities" THEN "entities" ELSE "dms"

\* The prismaClient chosen for a target
ClientFor(target) == IF target = "entities" THEN "entities" ELSE "dms"

\* First match of /\bLIMIT \?/i, or 0
PlaceholderPos(sql) ==
    LET hits == { i \in 1..Len(sql) :
                    /\ MatchesAtCI(sql, i, LimitPlaceholder)
                    /\ AtWordBoundary(sql, i) }
    IN  IF hits = {} THEN 0 ELSE CHOOSE x \in hits : \A y \in hits : x <= y

\* The limit of the request is substituted as it is
ApplyLimitUncapped(plan, sql, limit) ==
    IF plan.allowsLimit /\ limit # 0
    THEN LET i == PlaceholderPos(sql)
         IN  IF i = 0 THEN sql
             ELSE SubSeq(sql, 1, i - 1) \o KwLIMIT \o <<" ">>
                  \o NatToString(limit)
                  \o SubSeq(sql, i + Len(LimitPlaceholder), Len(sql))
    ELSE sql

\* The statement run for a plan: the limit of the request replaces the
\* placeholder when the plan allows it
ApplyLimit(plan, sql, limit) ==
    IF plan.allowsLimit /\ limit # 0
    THEN LET i == PlaceholderPos(sql)
         IN  IF i = 0 THEN sql
             ELSE SubSeq(sql, 1, i - 1) \o KwLIMIT \o <<" ">>
                  \o NatToString(Min(limit, 100))
                  \o SubSeq(sql, i + Len(LimitPlaceholder), Len(sql))
    ELSE sql

Execution(sql, client) == [sql |-> sql, client |-> client, failed |-> FALSE]

\* The last execution is marked as failed
MarkFailed(ex) == [ex EXCEPT ![Len(ex)].failed = TRUE]

\* The loop condition attempts <= MAX_CORRECTION_ATTEMPTS
CorrectionContinues(n) == n <= MAX_CORRECTION_ATTEMPTS

\* The final fallback after the loop
FailureReply(sql, log, target) ==
    Reply(400, "failure", sql,
          <<"The query could not be executed due to persistent errors.">>, 0, log, target)

\* The question is missing, not a string or blank: BadRequest is thrown
CtlBadRequest ==
    /\ pc = "start"
    /\ InvalidQuestion(reqQuestion)
    /\ httpResponse' = BadRequest
    /\ pc' = "done"
    /\ UNCHANGED <<reqQuestion, reqLimit, cleanedQuestion, routingDecision, aiService,
                   prismaClient, queryPlan, finalSql, attempts, errorFeedbackLog,
                   sqlToRun, executions, regenerations>>
    /\ UNCHANGED <<genVars, rtVars>>
    /\ UNCHANGED <<clVars, apVars>>

\* routeQuestion(cleanedQuestion) is called
CtlRoute ==
    /\ pc = "start"
    /\ ~InvalidQuestion(reqQuestion)
    /\ cleanedQuestion' = Trim(reqQuestion.text)
    /\ RtStart(Trim(reqQuestion.text))
    /\ pc' = "route"
    /\ UNCHANGED <<reqQuestion, reqLimit, routingDecision, aiService, prismaClient,
                   queryPlan, finalSql, attempts, errorFeedbackLog, sqlToRun,
                   executions, regenerations, httpResponse>>
    /\ UNCHANGED genVars
    /\ UNCHANGED <<clVars, apVars>>

\* routingDecision.target === "unknown": BadRequest is thrown
CtlUnknown ==
    /\ pc = "route"
    /\ rtPc = "done"
    /\ rtDecision.target = "unknown"
    /\ routingDecision' = rtDecision
    /\ httpResponse' = BadRequest
    /\ pc' = "done"
    /\ UNCHANGED <<reqQuestion, reqLimit, cleanedQuestion, aiService, prismaClient,
                   queryPlan, finalSql, attempts, errorFeedbackLog, sqlToRun,
                   executions, regenerations>>
    /\ RtEnd
    /\ UNCHANGED genVars
    /\ UNCHANGED <<clVars, apVars>>

\* The service and the connection are chosen and the first plan is requested
CtlGenerate ==
    /\ pc = "route"
    /\ rtPc = "done"
    /\ rtDecision.target # "unknown"
    /\ routingDecision' = rtDecision
    /\ aiService' = ServiceFor(rtDecision.target)
    /\ prismaClient' = ClientFor(rtDecision.target)
    /\ GenStart(ServiceFor(rtDecision.target), <<>>)
    /\ pc' = "plan"
    /\ UNCHANGED <<reqQuestion, reqLimit, cleanedQuestion, queryPlan, finalSql, attempts,
                   errorFeedbackLog, sqlToRun, executions, regenerations, httpResponse>>
    /\ RtEnd
    /\ UNCHANGED <<clVars, apVars>>

\* The first plan arrives; the loop is entered and its statement is executed
CtlExecuteFirst ==
    /\ pc = "plan"
    /\ genPc = "returned"
    /\ queryPlan' = genPlan
    /\ finalSql' = genPlan.sql
    /\ attempts' = 0
    /\ errorFeedbackLog' = <<>>
    /\ CorrectionContinues(0)
    /\ sqlToRun' = ApplyLimit(genPlan, genPlan.sql, reqLimit)
    /\ executions' = Append(executions, Execution(sqlToRun', prismaClient))
    /\ pc' = "exec"
    /\ UNCHANGED <<reqQuestion, reqLimit, cleanedQuestion, routingDecision, aiService,
                   prismaClient, regenerations, httpResponse>>
    /\ GenEnd
    /\ UNCHANGED rtVars
    /\ UNCHANGED <<clVars, apVars>>

\* $queryRawUnsafe resolves: 200 with the statement run and the feedback log
DbSucceeds ==
    /\ pc = "exec"
    /\ httpResponse' = Reply(200, "success", sqlToRun, queryPlan.explanation, attempts,
                             errorFeedbackLog, routingDecision.target)
    /\ pc' = "done"
    /\ UNCHANGED <<reqQuestion, reqLimit, cleanedQuestion, routingDecision, aiService,
                   prismaClient, queryPlan, finalSql, attempts, errorFeedbackLog,
                   sqlToRun, executions, regenerations>>
    /\ UNCHANGED <<genVars, rtVars>>
    /\ UNCHANGED <<clVars, apVars>>

\* The log is overwritten by the last failure
PushFeedbackDropping(log, sql, error) == <<[sql |-> sql, error |-> error]>>

\* The newest failure is put first
PushFeedbackPrepending(log, sql, error) == <<[sql |-> sql, error |-> error]>> \o log

\* errorFeedbackLog.push({ sql: finalSql, error: dbError })
PushFeedback(log, sql, error) == Append(log, [sql |-> sql, error |-> error])

\* $queryRawUnsafe rejects before the last attempt: the failure is recorded
\* and a corrected plan is requested with the whole log
DbFailsRetry ==
    /\ pc = "exec"
    /\ attempts # MAX_CORRECTION_ATTEMPTS
    /\ \E e \in DbErrors :
          errorFeedbackLog' = PushFeedback(errorFeedbackLog, finalSql, e)
    /\ executions' = MarkFailed(executions)
    /\ GenStart(aiService, errorFeedbackLog')
    /\ regenerations' = Append(regenerations, errorFeedbackLog')
    /\ pc' = "regen"
    /\ UNCHANGED <<reqQuestion, reqLimit, cleanedQuestion, routingDecision, aiService,
                   prismaClient, queryPlan, finalSql, attempts, sqlToRun, httpResponse>>
    /\ UNCHANGED rtVars
    /\ UNCHANGED <<clVars, apVars>>

\* $queryRawUnsafe rejects on the last attempt: break, terminal failure
DbFailsExhausted ==
    /\ pc = "exec"
    /\ attempts = MAX_CORRECTION_ATTEMPTS
    /\ \E e \in DbErrors :
          errorFeedbackLog' = PushFeedback(errorFeedbackLog, finalSql, e)
    /\ executions' = MarkFailed(executions)
    /\ httpResponse' = FailureReply(finalSql, errorFeedbackLog', routingDecision.target)
    /\ pc' = "done"
    /\ UNCHANGED <<reqQuestion, reqLimit, cleanedQuestion, routingDecision, aiService,
                   prismaClient, queryPlan, finalSql, attempts, sqlToRun, regenerations>>
    /\ UNCHANGED <<genVars, rtVars>>
    /\ UNCHANGED <<clVars, apVars>>

\* The successStatus of the corrected plan is not looked at
GaveUpNever(plan) == FALSE

\* if (!correctedPlan.successStatus)
GaveUp(plan) == ~plan.successStatus

\* The corrected plan has successStatus false: break, terminal failure
CtlGaveUp ==
    /\ pc = "regen"
    /\ genPc = "returned"
    /\ GaveUp(genPlan)
    /\ queryPlan' = genPlan
    /\ finalSql' = genPlan.sql
    /\ httpResponse' = FailureReply(genPlan.sql, errorFeedbackLog, routingDecision.target)
    /\ pc' = "done"
    /\ UNCHANGED <<reqQuestion, reqLimit, cleanedQuestion, routingDecision, aiService,
                   prismaClient, attempts, errorFeedbackLog, sqlToRun, executions,
                   regenerations>>
    /\ GenEnd
    /\ UNCHANGED rtVars
    /\ UNCHANGED <<clVars, apVars>>

\* The counter is left as it is
NextAttemptStuck(n) == n

\* attempts++
NextAttempt(n) == n + 1

\* The corrected plan is adopted, attempts++ and its statement is executed
\* (the loop condition holds here: attempts was below the maximum)
CtlRetry ==
    /\ pc = "regen"
    /\ genPc = "returned"
    /\ ~GaveUp(genPlan)
    /\ queryPlan' = genPlan
    /\ finalSql' = genPlan.sql
    /\ attempts' = NextAttempt(attempts)
    /\ CorrectionContinues(attempts')
    /\ sqlToRun' = ApplyLimit(genPlan, genPlan.sql, reqLimit)
    /\ executions' = Append(executions, Execution(sqlToRun', prismaClient))
    /\ pc' = "exec"
    /\ UNCHANGED <<reqQuestion, reqLimit, cleanedQuestion, routingDecision, aiService,
                   prismaClient, errorFeedbackLog, regenerations, httpResponse>>
    /\ GenEnd
    /\ UNCHANGED rtVars
    /\ UNCHANGED <<clVars, apVars>>

(***************************************************************************)
(* Requests and answers of the model used with the whole request handler   *)
(***************************************************************************)
Question(isString, text) == [isString |-> isString, text |-> text]

\* Requests: the question and the limit of the body (0 when absent)
CoreRequests ==
    {<<Question(FALSE, <<>>), 0>>,
     <<Question(TRUE, WSpace), 0>>,
     <<Question(TRUE, WSpace \o WHello), 0>>,
     <<Question(TRUE, WClient), 0>>}
    \cup { <<Question(TRUE, q), n>> : q \in {WTicket, WEntity}, n \in {7, 250} }

CoreRoutingAnswers ==
    {RoutingAnswer("error", "other", "other", 0, ""),
     RoutingAnswer("json", "unknown", "number", 92, ""),
     RoutingAnswer("json", "dms", "number", 150, "")}

(***************************************************************************)
(* Specifications                                                          *)
(***************************************************************************)
\* One natural-language request from its arrival to its response
Init ==
    /\ pc = "start"
    /\ \E rq \in CoreRequests : reqQuestion = rq[1] /\ reqLimit = rq[2]
    /\ cleanedQuestion = <<>>
    /\ routingDecision = NoDecision
    /\ aiService = "none"
    /\ prismaClient = "none"
    /\ queryPlan = NoPlan
    /\ finalSql = <<>>
    /\ attempts = 0
    /\ errorFeedbackLog = <<>>
    /\ sqlToRun = <<>>
    /\ executions = <<>>
    /\ regenerations = <<>>
    /\ httpResponse = NoReply
    /\ GenIdle
    /\ RtIdle
    /\ ClIdle
    /\ ApIdle

GenStep(R) ==
    \/ GenModelResponds(R)
    \/ GenCatchRetry
    \/ GenCatchExhausted
    \/ GenValidate
    \/ GenReturnSuccess
    \/ GenReturnNoRetry
    \/ GenFeedbackRetry
    \/ GenLoopExhausted

RouteStep(A) ==
    \/ RouteEmpty
    \/ RouteGeneral
    \/ RouteSignals
    \/ RouteDms
    \/ RouteEntities
    \/ RouteCallAI
    \/ RouteAIDecides(A)
    \/ RouteAIFallback(A)

Next ==
    \/ CtlBadRequest
    \/ CtlRoute
    \/ CtlUnknown
    \/ CtlGenerate
    \/ CtlExecuteFirst
    \/ DbSucceeds
    \/ DbFailsRetry
    \/ DbFailsExhausted
    \/ CtlGaveUp
    \/ CtlRetry
    \/ (pc \in {"plan", "regen"} /\ GenStep(CoreResponses)
        /\ UNCHANGED <<ctlVars, rtVars, clVars, apVars>>)
    \/ (pc = "route" /\ RouteStep(CoreRoutingAnswers)
        /\ UNCHANGED <<ctlVars, genVars, clVars, apVars>>)

Spec == Init /\ [][Next]_vars

\* Answers used where every behaviour is followed to its end: a plan with a
\* placeholder, a declined plan, a plan with a forbidden keyword, a failed call
LiveResponses ==
    { Response("json", "string", HeadSelect \o TailPlaceholder, "string", "true", "true",
               "absent"),
      Response("json", "string", HeadSelect, "string", "false", "false", "false"),
      Response("json", "string", SqlDropTable, "string", "true", "true", "absent"),
      Response("error", "absent", <<>>, "other", "absent", "absent", "absent") }

NextLive ==
    \/ CtlBadRequest
    \/ CtlRoute
    \/ CtlUnknown
    \/ CtlGenerate
    \/ CtlExecuteFirst
    \/ DbSucceeds
    \/ DbFailsRetry
    \/ DbFailsExhausted
    \/ CtlGaveUp
    \/ CtlRetry
    \/ (pc \in {"plan", "regen"} /\ GenStep(LiveResponses)
        /\ UNCHANGED <<ctlVars, rtVars, clVars, apVars>>)
    \/ (pc = "route" /\ RouteStep(CoreRoutingAnswers)
        /\ UNCHANGED <<ctlVars, genVars, clVars, apVars>>)

\* The plans validateAndSanitize makes of these answers
LivePlans == { validateAndSanitize(r, v) : r \in LiveResponses, v \in Variants }

\* The step of GenValidate, its result taken from the plans already computed
GenValidateStep ==
    /\ genPc = "process"
    /\ ~Throws(genResp)
    /\ genResult' \in LivePlans
    /\ genPc' = "decide"
    /\ UNCHANGED <<genVariant, genCorrections, genAttempt, genPrompt, genResp, genPlan,
                   genCalls>>

\* The steps of NextLive, as the fairness condition reads them: a step of
\* NextLive is a step of LiveProgress, and one is enabled exactly when the
\* other is
LiveProgress ==
    \/ CtlBadRequest
    \/ CtlRoute
    \/ CtlUnknown
    \/ CtlGenerate
    \/ CtlExecuteFirst
    \/ DbSucceeds
    \/ DbFailsRetry
    \/ DbFailsExhausted
    \/ CtlGaveUp
    \/ CtlRetry
    \/ (/\ pc \in {"plan", "regen"}
        /\ \/ GenModelResponds(LiveResponses)
           \/ GenCatchRetry
           \/ GenCatchExhausted
           \/ GenValidateStep
           \/ GenReturnSuccess
           \/ GenReturnNoRetry
           \/ GenFeedbackRetry
           \/ GenLoopExhausted
        /\ UNCHANGED <<ctlVars, rtVars, clVars, apVars>>)
    \/ (pc = "route" /\ RouteStep(CoreRoutingAnswers)
        /\ UNCHANGED <<ctlVars, genVars, clVars, apVars>>)

\* Every call the handler awaits, of the model or of the database, returns
\* or fails, and the handler then takes its next step
SpecLive == Init /\ [][NextLive]_vars /\ WF_vars(LiveProgress)

\* generateQueryPlan called on its own
SampleCorrections ==
    {<<>>, <<[sql |-> SqlDropTable, error |-> 1], [sql |-> HeadSelect, error |-> 1]>>}

InitGen ==
    /\ CtlIdle
    /\ RtIdle
    /\ ClIdle
    /\ ApIdle
    /\ genPc = "call"
    /\ genVariant \in Variants
    /\ genCorrections \in SampleCorrections
    /\ genAttempt = 0
    /\ genPrompt = buildUserPrompt(genCorrections)
    /\ genResp = NoResponse
    /\ genResult = NoPlan
    /\ genPlan = NoPlan
    /\ genCalls = 0

NextGen == GenStep(AllResponses) /\ UNCHANGED <<ctlVars, rtVars, clVars, apVars>>

SpecGen == InitGen /\ [][NextGen]_vars

\* routeQuestion called on its own
InitRoute ==
    /\ CtlIdle
    /\ GenIdle
    /\ ClIdle
    /\ ApIdle
    /\ rtPc = "start"
    /\ rtQuestion \in Questions
    /\ rtDms = NoSignal
    /\ rtEntities = NoSignal
    /\ rtDecision = NoDecision
    /\ rtAnswer = NoAnswer
    /\ rtAiCalls = 0

NextRoute ==
    RouteStep(RoutingAnswers) /\ UNCHANGED <<ctlVars, genVars, clVars, apVars>>

SpecRoute == InitRoute /\ [][NextRoute]_vars

\* cleanDataBatch called on a table
InitClean ==
    /\ CtlIdle
    /\ GenIdle
    /\ RtIdle
    /\ clPc = "start"
    /\ clRows \in Tables
    /\ clBatches = <<>>
    /\ clBatchIndex = 0
    /\ clExecuting = <<>>
    /\ clTask = <<>>
    /\ clResults = <<>>
    /\ clOrigin = <<>>
    /\ clFailures = <<>>
    /\ clKeyAnswer = KeyAnswer("none", <<>>)
    /\ clSuggested = ""
    /\ clDelays = <<>>
    /\ clErrors = <<>>
    /\ ApIdle

NextClean == CleanStepCore /\ UNCHANGED <<ctlVars, genVars, rtVars, apVars>>

SpecClean == InitClean /\ [][NextClean]_vars

\* cleanDataBatch called on a table of one batch, every answer possible
InitBatch ==
    /\ CtlIdle
    /\ GenIdle
    /\ RtIdle
    /\ clPc = "start"
    /\ clRows \in BatchTables
    /\ clBatches = <<>>
    /\ clBatchIndex = 0
    /\ clExecuting = <<>>
    /\ clTask = <<>>
    /\ clResults = <<>>
    /\ clOrigin = <<>>
    /\ clFailures = <<>>
    /\ clKeyAnswer = KeyAnswer("none", <<>>)
    /\ clSuggested = ""
    /\ clDelays = <<>>
    /\ clErrors = <<>>
    /\ ApIdle

NextBatch == CleanStepAll /\ UNCHANGED <<ctlVars, genVars, rtVars, apVars>>

SpecBatch == InitBatch /\ [][NextBatch]_vars

\* The apply step run on a sequence of results
InitApply ==
    /\ CtlIdle
    /\ GenIdle
    /\ RtIdle
    /\ ClIdle
    /\ apPc = "start"
    /\ apVariant \in {"service", "controller", "legacy"}
    /\ apResults \in ApplyInputs(apVariant)
    /\ apKeyField \in {"", "id"}
    /\ apKf = ""
    /\ apSafe = <<>>
    /\ apIndex = 0
    /\ apExecuting = <<>>
    /\ apTask = <<>>
    /\ apUpdates = <<>>
    /\ apUpdatedCount = 0
    /\ apErrors = 0

NextApply == ApplyStep /\ UNCHANGED <<ctlVars, genVars, rtVars, clVars>>

SpecApply == InitApply /\ [][NextApply]_vars

(***************************************************************************)
(* Properties                                                              *)
(***************************************************************************)
\* A statement is read-only: it starts with SELECT and holds none of the ten
\* forbidden keywords as a whole word
ReadOnlySql(sql) ==
    /\ MatchesAtCI(sql, 1, KwSELECT)
    /\ \A k \in 1..Len(ForbiddenEntities) : ~TestWholeWord(sql, ForbiddenEntities[k])

NumFailed == Cardinality({ i \in 1..Len(executions) : executions[i].failed })

\* C1: every statement the controller sends to the database, on the first
\* execution and on every correction attempt, starts with SELECT and holds no
\* forbidden keyword as a whole word, whatever the model answers.
C1_ExecutedSqlIsReadOnly ==
    \A i \in 1..Len(executions) : ReadOnlySql(executions[i].sql)

\* The answer of the model holds one of the ten keywords as a whole word
AnswerHasForbiddenKeyword(r) ==
    /\ r.kind = "json"
    /\ r.sqlType = "string"
    /\ \E k \in 1..Len(ForbiddenEntities) : TestWholeWord(r.sql, ForbiddenEntities[k])

\* C2: in both variants, an answer whose sql holds one of the ten keywords as
\* a whole word, in any letter case, is rejected by validateAndSanitize and is
\* never returned as a plan with successStatus true.
C2_ForbiddenKeywordRejected ==
    (genPc \in {"decide", "returned"} /\ AnswerHasForbiddenKeyword(genResp))
        => /\ ~genResult.successStatus
           /\ genPc = "returned" => ~genPlan.successStatus

\* C3: one request executes SQL at most MAX_CORRECTION_ATTEMPTS + 1 = 3 times.
C3_AtMostThreeExecutions == Len(executions) <= 3

C3_Witness == pc = "done" /\ Len(executions) = 3 /\ NumFailed = 3

\* C4: in every response of the correction loop, success or terminal
\* failure, the errorFeedback returned has one entry per failed execution.
C4_FeedbackCountsFailures ==
    (pc = "done" /\ httpResponse.kind \in {"success", "failure"})
        => Len(httpResponse.errorFeedback) = NumFailed

C4_Witness ==
    /\ pc = "done"
    /\ httpResponse.kind = "success"
    /\ NumFailed = 2
    /\ Len(httpResponse.errorFeedback) = 2

\* C5: when the plan regenerated after a failure has successStatus false the
\* loop ends at once: the step taken is the terminal failure response with
\* that plan's sql and the whole log, nothing is executed or generated, and
\* nothing happens after a response.
C5_GiveUpEndsLoop ==
    [][/\ (pc = "regen" /\ genPc = "returned" /\ ~genPlan.successStatus)
           => /\ pc' = "done"
              /\ httpResponse'.kind = "failure"
              /\ httpResponse'.sql = genPlan.sql
              /\ httpResponse'.errorFeedback = errorFeedbackLog
              /\ executions' = executions
              /\ regenerations' = regenerations
       /\ pc = "done" => UNCHANGED vars]_vars

C5_Witness ==
    /\ pc = "done"
    /\ httpResponse.kind = "failure"
    /\ Len(executions) = 1
    /\ Len(httpResponse.errorFeedback) = 1
    /\ httpResponse.sql # executions[1].sql

\* C6: the k-th regeneration call starts after the k-th failure is recorded
\* and gets exactly the k entries recorded so far, oldest first; the log only
\* grows at its end.
C6_RegenerationGetsWholeLog ==
    /\ [](/\ \A k \in 1..Len(regenerations) :
                /\ Len(regenerations[k]) = k
                /\ regenerations[k] = SubSeq(errorFeedbackLog, 1, k)
          /\ pc = "regen" =>
                /\ Len(regenerations) = NumFailed
                /\ Len(errorFeedbackLog) = NumFailed
                /\ genCorrections = errorFeedbackLog
                /\ genPrompt.corrections = errorFeedbackLog)
    /\ [][/\ Len(errorFeedbackLog') >= Len(errorFeedbackLog)
          /\ SubSeq(errorFeedbackLog', 1, Len(errorFeedbackLog)) = errorFeedbackLog]_vars

C6_Witness ==
    /\ pc = "regen"
    /\ genPc = "call"
    /\ Len(regenerations) = 2
    /\ errorFeedbackLog[1].sql # errorFeedbackLog[2].sql

\* The answer is rejected: the call or the parse throws, or validateAndSanitize
\* answers with a plan to retry
Rejected(r, variant) ==
    \/ Throws(r)
    \/ LET p == validateAndSanitize(r, variant)
       IN  ~p.successStatus /\ p.shouldRetry

\* C7: when every answer of the model within one generateQueryPlan call is
\* rejected, the call returns a plan with successStatus false and shouldRetry
\* false.
C7_AllRejectedGivesTerminalPlan ==
    (genPc = "returned" /\ Rejected(genResp, genVariant))
        => /\ ~genPlan.successStatus
           /\ ~genPlan.shouldRetry
           /\ genPlan.sql = FallbackSql

C7_Witness ==
    /\ genPc = "returned"
    /\ genResp.kind = "json"
    /\ genResp.sql = SqlDropTable
    /\ genResp.successStatus = "true"
    /\ genPlan.sql = FallbackSql

\* C8 as stated: one generateQueryPlan call makes at most MAX_RETRIES = 3 calls
\* of the model.
C8_AtMostThreeCalls == genCalls <= 3

\* C8 amended: one generateQueryPlan call makes at most MAX_RETRIES + 1 = 4
\* calls of the model, in both variants.
C8_AtMostFourCalls == genCalls <= 4

C8_Witness == genPc = "returned" /\ genCalls = 4 /\ genVariant = "dms"

\* The sql of the answer passes the checks of validateAndSanitize
PassesSanitization(r, variant) ==
    /\ r.sqlType = "string"
    /\ FirstForbidden(Trim(r.sql), variant) = 0
    /\ MatchesAtCI(Trim(r.sql), 1, KwSELECT)

\* C9: a structurally valid answer whose sql passes sanitization and whose
\* successStatus is false is returned at once as a plan with successStatus
\* false that carries the sql and the explanation of the model, whatever its
\* shouldRetry field.
C9_DeclinedAnswerReturnedAsIs ==
    (/\ genPc \in {"decide", "returned"}
     /\ StructurallyValid(genResp)
     /\ genResp.successStatus = "false"
     /\ PassesSanitization(genResp, genVariant))
        => /\ ~genResult.successStatus
           /\ ~genResult.shouldRetry
           /\ Trim(genResult.explanation) = Trim(genResp.explanation)
           /\ genResult.sql \in {genResp.sql, Trim(genResp.sql)}

\* C10: routeQuestion ends with a decision whose target is one of entities,
\* dms, general, unknown and whose confidence is within [0, 1], whatever the
\* question and the answer of the model to the routing call.
C10_DecisionWellFormed ==
    rtPc = "done" => /\ rtDecision.target \in Targets
                     /\ rtDecision.confidence \in 0..100

C10_Witness ==
    /\ rtPc = "done"
    /\ rtAnswer.kind = "json"
    /\ rtAnswer.confidence = 150
    /\ rtDecision.ai_used
    /\ rtDecision.confidence = 100

\* The four deterministic cases of routeQuestion, read off the question:
\* blank, the conversational pattern matched (0 for none), the weight of the
\* DMS signal and the weight of the Entities signal
RouteCases(q) ==
    LET normalized == normalizeQuestion(Trim(q))
    IN  [blank    |-> Trim(q) = <<>>,
         general  |-> matchGeneralPattern(normalized),
         dms      |-> analyzeDmsSignals(normalized).confidence,
         entities |-> analyzeEntitiesSignals(normalized).confidence]

\* C11: routeQuestion makes no call of the model when the question is blank,
\* matches a conversational pattern (general, 0.95, a markdown response),
\* has a DMS signal of weight >= 0.8 (dms with that weight) or, failing
\* those, an Entities signal of weight >= 0.85 (entities); it calls the
\* model, once, exactly when none of the four cases applies
C11_ModelCalledOnlyWhenAmbiguous ==
    /\ [](((rtPc = "done" /\ rtAiCalls = 0) \/ rtPc = "ai") =>
            LET c == RouteCases(rtQuestion)
            IN  IF c.blank
                THEN rtPc = "done" /\ ~rtDecision.ai_used /\ rtDecision.target = "unknown"
                ELSE IF c.general # 0
                THEN /\ rtPc = "done"
                     /\ ~rtDecision.ai_used
                     /\ rtDecision.target = "general"
                     /\ rtDecision.confidence = 95
                     /\ rtDecision.markdownResponse # ""
                ELSE IF c.dms >= 80
                THEN /\ rtPc = "done"
                     /\ ~rtDecision.ai_used
                     /\ rtDecision.target = "dms"
                     /\ rtDecision.confidence = c.dms
                ELSE IF c.entities >= 85
                THEN /\ rtPc = "done"
                     /\ ~rtDecision.ai_used
                     /\ rtDecision.target = "entities"
                     /\ rtDecision.confidence = c.entities
                ELSE rtPc = "ai" /\ rtAiCalls = 1)
    /\ [][/\ rtAiCalls' > rtAiCalls => rtPc' = "ai"
          /\ rtPc = "ai" => (rtPc' = "done" /\ rtAiCalls' = rtAiCalls
                                /\ rtQuestion' = rtQuestion)]_vars

C11_Witness ==
    /\ rtPc = "done"
    /\ rtQuestion = WTicketQuestion
    /\ rtDecision.target = "dms"
    /\ rtDecision.confidence = 95
    /\ rtAiCalls = 0

\* The routing call of the model failed: callAI returned null
RoutingCallFailed ==
    /\ rtAnswer.kind # "none"
    /\ rtAnswer.kind # "json" \/ rtAnswer.target \notin Targets

\* C12: when the routing call of the model fails (error, empty content,
\* unparseable JSON, target outside the four values) the decision is never
\* the model's; it is dms only if the DMS score is strictly higher than the
\* Entities score, and otherwise entities with confidence at least 0.7;
\* the scores are those of the question, kept while the model is awaited
C12_FailedCallFallsBackToSignals ==
    /\ rtPc = "ai" =>
           LET c == RouteCases(rtQuestion)
           IN  rtDms.confidence = c.dms /\ rtEntities.confidence = c.entities
    /\ (rtPc = "done" /\ RoutingCallFailed) =>
           /\ ~rtDecision.ai_used
           /\ rtDecision.target \in {"dms", "entities"}
           /\ rtDecision.target = "dms" =>
                  /\ rtDms.confidence > rtEntities.confidence
                  /\ rtDecision.confidence = rtDms.confidence
           /\ rtDms.confidence <= rtEntities.confidence =>
                  /\ rtDecision.target = "entities"
                  /\ rtDecision.confidence >= 70
                  /\ rtDecision.confidence = rtEntities.confidence

C12_Witness ==
    /\ rtPc = "done"
    /\ rtAnswer.kind = "badjson"
    /\ rtQuestion = WPending \o WSpace \o WBalance
    /\ rtDecision.target = "dms"
    /\ rtDecision.confidence = 75

\* The normal form the routing rules are described with: lowercased,
\* punctuation other than hyphens removed, whitespace collapsed and trimmed
RECURSIVE Unpunctuated(_)
Unpunctuated(q) ==
    IF q = <<>> THEN <<>>
    ELSE IF IsWordChar(Head(q)) \/ IsSpace(Head(q)) \/ Head(q) = "-"
         THEN <<Head(q)>> \o Unpunctuated(Tail(q))
         ELSE Unpunctuated(Tail(q))

StrippedForm(q) == Trim(CollapseWhitespace(Unpunctuated(ToLowerCase(q))))

\* C13 as stated: a question whose form without punctuation is empty gets
\* unknown with confidence 0 and no call of the model
C13_PunctuationOnlyIsUnknown ==
    (rtPc = "done" /\ StrippedForm(rtQuestion) = <<>>) =>
        /\ rtDecision.target = "unknown"
        /\ rtDecision.confidence = 0
        /\ rtAiCalls = 0

\* C13: a question that is empty once trimmed, which are the questions
\* normalizeQuestion maps to the empty string, gets unknown with
\* confidence 0 and no call of the model
C13_BlankQuestionIsUnknown ==
    /\ rtPc = "start" =>
           ((normalizeQuestion(Trim(rtQuestion)) = <<>>) <=> (Trim(rtQuestion) = <<>>))
    /\ (rtPc = "done" /\ Trim(rtQuestion) = <<>>) =>
           /\ rtDecision.target = "unknown"
           /\ rtDecision.confidence = 0
           /\ ~rtDecision.ai_used
           /\ rtAiCalls = 0

C13_Witness ==
    /\ rtPc = "done"
    /\ rtQuestion = WSpace \o WSpace
    /\ rtDecision.target = "unknown"
    /\ rtDecision.confidence = 0

\* C14: a plan is generated and SQL is executed only against the database
\* of the routed target: dms with the DMS generator and connection,
\* entities with the entities generator and connection, and nothing is
\* generated or executed for the targets general and unknown
C14_PlanAndSqlOnlyForRoutedDatabase ==
    /\ routingDecision.target \in {"general", "unknown"} =>
           /\ aiService = "none"
           /\ prismaClient = "none"
           /\ executions = <<>>
    /\ routingDecision.target \in {"dms", "entities"} =>
           /\ aiService \in {"none", routingDecision.target}
           /\ prismaClient \in {"none", routingDecision.target}
           /\ \A i \in 1..Len(executions) :
                  executions[i].client = routingDecision.target
    /\ routingDecision.target = "none" => executions = <<>>
    /\ (pc = "done" /\ (InvalidQuestion(reqQuestion) \/ routingDecision.target = "unknown")) =>
           httpResponse = BadRequest

\* The batches admitted and not yet settled, their retries and waits included
InFlight == { i \in DOMAIN clTask : clTask[i].st \in {"calling", "backoff"} }

\* C15: during one cleanDataBatch run at most 3 batches are in flight at
\* every moment; a batch is admitted only when fewer than 3 others are in
\* flight, and while batches wait, 3 are in flight
C15_AtMostThreeInFlight ==
    /\ [](/\ Cardinality(InFlight) <= 3
          /\ (clPc \in {"race", "settle"} /\ clBatchIndex < Len(clBatches)) =>
                 Cardinality(InFlight) = 3)
    /\ [][\A i \in DOMAIN clTask \cap DOMAIN clTask' :
              (clTask[i].st = "none" /\ clTask'[i].st # "none") =>
                  Cardinality({ j \in InFlight : clTask'[j].st # "settled" }) < 3]_vars

C15_Witness ==
    /\ clPc = "race"
    /\ Len(clBatches) = 4
    /\ clBatchIndex = 3
    /\ Cardinality(InFlight) = 3
    /\ clTask[2].st = "backoff"
    /\ clTask[4].st = "none"

\* C16: for every order in which the batches settle, the results returned
\* are in input row order: those of batch i precede those of batch j
\* whenever i < j
C16_ResultsInInputOrder ==
    clPc = "returned" =>
        \A k \in 1..Len(clOrigin), l \in 1..Len(clOrigin) :
            k < l => clOrigin[k] <= clOrigin[l]

\* C17: cleanDataBatch returns exactly one CleanResult per input row and
\* the `original` fields of the results are the input rows, each once,
\* whatever number of items the model returns
C17_OneResultPerRow ==
    clPc = "returned" =>
        /\ Len(clResults) = Len(clRows)
        /\ \A k \in 1..Len(clResults) : clResults[k].hasOriginal
        /\ \A r \in 1..Len(clRows) :
               Cardinality({ k \in 1..Len(clResults) :
                               clResults[k].original = clRows[r] }) = 1

\* The places in results of what batch i pushed
PlacesOf(i) == { k \in 1..Len(clOrigin) : clOrigin[k] = i }

\* C18: a row's result has isFailed = true exactly when all 3 attempts of
\* its batch failed; the rows of such a batch each get one result with
\* needsReview = true, changes = {} and cleaned = original = the row, and
\* no result of another batch is marked
C18_FailedIffAllAttemptsFailed ==
    clPc = "returned" =>
        \A i \in DOMAIN clBatches :
            LET places == PlacesOf(i)
            IN  /\ clFailures[i] <= 3
                /\ clFailures[i] = 3 =>
                       /\ Cardinality(places) = Len(clBatches[i])
                       /\ \A k \in places :
                              LET row == clBatches[i][k - (CHOOSE m \in places :
                                                \A n \in places : m <= n) + 1]
                              IN  /\ clResults[k].isFailed
                                  /\ clResults[k].needsReview
                                  /\ clResults[k].changes = {}
                                  /\ clResults[k].hasOriginal
                                  /\ clResults[k].original = row
                                  /\ clResults[k].cleaned = row
                /\ clFailures[i] < 3 => \A k \in places : ~clResults[k].isFailed

C18_Witness ==
    /\ clPc = "returned"
    /\ clRows = Table(7, 1200)
    /\ Len(clBatches) = 3
    /\ clFailures = <<0, 3, 0>>
    /\ { clResults[k].original.id : k \in { n \in 1..Len(clResults) : clResults[n].isFailed } }
           = {4, 5, 6}

\* C19: a non-empty row set of serialized size S is split into exactly
\* max(1, ceil(S / 3000)) batches
C19_BatchesEqualChunkCount ==
    (clPc \in {"key", "race", "settle", "returned"} /\ Len(clRows) > 0) =>
        Len(clBatches) = Max(1, CeilDiv(jsonSizeInBytes(clRows), 3000))

\* The places in results for which model.update has been called
Updated == { apUpdates[k] : k \in 1..Len(apUpdates) }

\* C20: the apply step issues an update for a result if and only if its
\* needsReview is false and its changes has at least one field; no row of a
\* failed batch and no row needing review is ever written
C20_UpdateIffSafe ==
    /\ \A k \in Updated :
           /\ ~apResults[k].needsReview
           /\ ~apResults[k].isFailed
           /\ apResults[k].changes # {}
    /\ apPc = "returned" =>
           \A k \in 1..Len(apResults) :
               (~apResults[k].needsReview /\ apResults[k].changes # {}) => k \in Updated

\* The results that pass the filter of the apply step
Eligible == { k \in 1..Len(apResults) : IsSafe(apResults[k]) }

\* C21: in the apply step an update that fails does not stop the updates of
\* the remaining eligible rows and does not make the run throw: the run
\* throws only before its first update, and when it returns updatedCount plus
\* the number of collected errors is the number of eligible rows
C21_FailedUpdateDoesNotAbort ==
    /\ apPc = "threw" => apIndex = 0
    /\ apPc = "returned" =>
           /\ apUpdatedCount + apErrors = Cardinality(Eligible)
           /\ Updated = Eligible

\* The number of model.update calls that have not settled
Outstanding ==
    IF apVariant = "service"
    THEN Cardinality({ i \in DOMAIN apTask : apTask[i] = "updating" })
    ELSE IF apPc = "update" THEN 1 ELSE 0

\* C25: during one apply run at most one update is outstanding at any
\* moment: the update of an eligible row starts only after the update of the
\* row before it has settled
C25_UpdatesAreSequential == Outstanding <= 1

\* C25, as the code has it: the sequential loops have at most one update
\* outstanding and start an update only when none is outstanding;
\* DataCleanupService.applyCleanup has at most 3 outstanding and starts
\* updates only while fewer than 3 are outstanding
C25_OneOutstandingInLoopsThreeInService ==
    /\ [](Outstanding <= (IF apVariant = "service" THEN 3 ELSE 1))
    /\ [][Len(apUpdates') > Len(apUpdates) =>
             IF apVariant = "service"
             THEN Cardinality({ i \in DOMAIN apTask :
                                  apTask[i] = "updating" /\ apTask'[i] = "updating" }) < 3
             ELSE Outstanding = 0]_vars

C25_Witness ==
    /\ apVariant = "service"
    /\ Len(apSafe) = 4
    /\ Outstanding = 3
    /\ apUpdatedCount + apErrors = 1

\* C30: an apply step given no eligible result, every result needing review
\* or being unchanged or there being none, returns updatedCount 0 and no
\* error, without throwing and without calling model.update
C30_NothingEligibleReturnsZero ==
    Eligible = {} =>
        /\ apPc # "threw"
        /\ apUpdates = <<>>
        /\ apUpdatedCount = 0
        /\ apErrors = 0

\* C22: in both variants, a plan returned with successStatus true carries no
\* literal numeric LIMIT: when the sql of the model has `LIMIT n`, for any n,
\* the sql of the plan has the placeholder `LIMIT ?` in its place
C22_LiteralLimitReplaced ==
    (genPc = "returned" /\ genPlan.successStatus) =>
        /\ LimitMatchPos(genPlan.sql) = 0
        /\ (genResp.sqlType = "string" /\ LimitMatchPos(genResp.sql) # 0) =>
               ContainsCI(genPlan.sql, LimitPlaceholder)

\* The current plan has a placeholder the request's limit is to replace
LimitApplies ==
    /\ reqLimit # 0
    /\ queryPlan.allowsLimit
    /\ PlaceholderPos(finalSql) # 0

\* The number written at position i of a statement
NumberAt(sql, i) == ParseInt(SubSeq(sql, i, i + DigitRun(sql, i) - 1))

\* C23: when the request carries a limit L and the current plan allows it, the
\* statement executed is the sql of the plan with its placeholder replaced
\* by the smaller of L and 100, on the first execution and on every
\* correction attempt; no substituted limit is above 100
C23_SubstitutedLimitIsCapped ==
    (pc = "exec" /\ LimitApplies) =>
        LET i == PlaceholderPos(finalSql)
            n == NumberAt(sqlToRun, i + 6)
        IN  /\ executions[Len(executions)].sql = sqlToRun
            /\ SubSeq(sqlToRun, 1, i + 5) = SubSeq(finalSql, 1, i - 1) \o KwLIMIT \o <<" ">>
            /\ DigitRun(sqlToRun, i + 6) >= 1
            /\ n <= 100
            /\ n = (IF reqLimit <= 100 THEN reqLimit ELSE 100)
            /\ SubSeq(sqlToRun, i + 6 + DigitRun(sqlToRun, i + 6), Len(sqlToRun))
                   = SubSeq(finalSql, i + 7, Len(finalSql))

C23_Witness ==
    /\ pc = "exec"
    /\ LimitApplies
    /\ attempts = 2
    /\ reqLimit = 250
    /\ NumberAt(sqlToRun, PlaceholderPos(finalSql) + 6) = 100

\* C27: a request whose first plan, the one generated before any execution,
\* has successStatus false, whether the model declined or the generator fell
\* back, never has the sql of that plan executed and never gets a 200
C27_DeclinedFirstPlanNotExecuted ==
    /\ (pc = "exec" /\ attempts = 0) => queryPlan.successStatus
    /\ (pc = "done" /\ httpResponse.status = 200 /\ attempts = 0) =>
           queryPlan.successStatus

\* C28: no statement is sent to the database while it still holds the
\* placeholder `LIMIT ?`, whether or not the request carries a limit and
\* whatever the allowsLimit of the plan
C28_NoPlaceholderExecuted ==
    \A i \in 1..Len(executions) : PlaceholderPos(executions[i].sql) = 0

\* The number of generateQueryPlan calls the handler has made
PlanInvocations == (IF aiService = "none" THEN 0 ELSE 1) + Len(regenerations)

\* C29: when every call of the model and of the database returns or fails,
\* every request ends, with exactly one response (success, terminal failure
\* or 400) that is not replaced afterwards, and after at most 3 calls of
\* generateQueryPlan
C29_RequestEndsWithOneResponse ==
    /\ <>(pc = "done")
    /\ [](PlanInvocations <= 3)
    /\ []((pc = "done") <=> (httpResponse # NoReply))
    /\ [](httpResponse # NoReply => httpResponse.status \in {200, 400})
    /\ [][httpResponse # NoReply => UNCHANGED vars]_vars

C29_Witness ==
    /\ pc = "done"
    /\ PlanInvocations = 3
    /\ Len(executions) = 3
    /\ httpResponse.status = 200

\* The calls of the model made for batch i
CallsMade(i) ==
    IF clTask[i].st = "none" THEN 0
    ELSE IF clTask[i].st = "settled" /\ clFailures[i] > clTask[i].attempt
    THEN clFailures[i]
    ELSE clTask[i].attempt + 1

\* C24: for one batch the model is called at most 3 times; a timeout, an
\* empty response, malformed JSON and a failed call each use up one attempt
\* of that budget; after failed attempt a (from 0) the wait before the next
\* attempt is 1000 * 2^a ms, 1000 then 2000, and no wait follows the last
\* failed attempt
C24_ThreeAttemptsWithBackoff ==
    \A i \in DOMAIN clTask :
        /\ CallsMade(i) <= 3
        /\ Len(clErrors[i]) <= CallsMade(i)
        /\ Len(clErrors[i]) = clFailures[i]
        /\ clTask[i].st = "calling" => Len(clErrors[i]) = CallsMade(i) - 1
        /\ clTask[i].st = "backoff" => Len(clErrors[i]) = CallsMade(i)
        /\ Len(clDelays[i]) = (IF Len(clErrors[i]) = 3 THEN 2 ELSE Len(clErrors[i]))
        /\ \A a \in 1..Len(clDelays[i]) :
               clDelays[i][a] = (IF a = 1 THEN 1000 ELSE 2000)
        /\ (clTask[i].st = "settled" /\ Len(clErrors[i]) = 3) =>
               \A k \in PlacesOf(i) : clResults[k].isFailed

C24_Witness ==
    /\ clPc = "returned"
    /\ Len(clTask) = 1
    /\ clErrors[1] = <<"timeout", "empty", "badjson">>
    /\ clDelays[1] = <<1000, 2000>>
    /\ CallsMade(1) = 3

\* The text of the key answer once trimmed and freed of quotes
KeyField == StripQuotes(Trim(clKeyAnswer.content))

\* C26: suggestKeyFieldFromRow returns the suggestion of the model only when
\* it is a column of the sample row and "id" in every other case, a failed
\* call included, so that cleanDataBatch never aborts because of it
C26_KeyInferenceNeverAborts ==
    /\ clPc # "threw"
    /\ clPc \in {"race", "settle"} =>
           IF clKeyAnswer.kind = "text" /\ \E c \in Columns : ColumnText[c] = KeyField
           THEN ColumnText[clSuggested] = KeyField
           ELSE clSuggested = "id"

=============================================================================
